---- MODULE Spec2Model ----
(***************************************************************************)
(* Real-time event distribution subsystem of the backend: the connection   *)
(* registry (ConnectionManager), the in-band control handlers              *)
(* (WebSocketManager), the session authenticator (WebSocketAuthenticator)  *)
(* with its rate limiter, and the /ws endpoint that composes them.         *)
(*                                                                         *)
(* Every handler is one action: the code between two inbound frames runs   *)
(* on one event-loop task, and the actions below are the sequential        *)
(* composition of everything the handler calls.                            *)
(***************************************************************************)
EXTENDS Integers, Sequences, FiniteSets, TLC

\* ------------------------------------------------------------------ bounds

\* Number of connection ids (uuid4 values) a behaviour may draw.
MaxConns == 3
\* The clock (datetime.now) runs over 0..MaxTime.
MaxTime == 1
\* authenticate() calls audited in one behaviour of SpecAuth.
MaxAudit == 1
\* Connection ids the authenticator is called with in SpecAuth.
MaxSessions == 2
\* Heartbeat periods the clock of SpecHeartbeat runs over.
MaxBeats == 5
\* Connections accepted in one behaviour of SpecHeartbeat.
MaxBeatConns == 2
\* SpecRate: limit L and window W of the calls, and the clock.
RateLimit == 1
RateWindow == 2
MaxRateTime == 4
\* Seconds the client's clock is ahead of the server's.
ClientSkew == 1
\* Callables registered with add_event_handler
MaxHandlers == 2
\* Events handed to process_event
MaxEvents == 3
\* authenticate calls of SpecAudit: one more than the authentication limit
MaxAttempts == 11
\* disconnect calls on one connection suspended at the same time
MaxClosers == 2

\* ------------------------------------------------------- program constants

\* WebSocketAuthenticator.max_auth_attempts
max_auth_attempts == 1000
\* authenticate(): rate_limiter.is_allowed(user.id, "auth", limit=10, window=60)
AuthLimit == 10
AuthWindow == 60
\* Positional parameters of WebSocketAuthenticator.authenticate (token, connection_id)
AuthenticateParams == 2
\* Positional arguments WebSocketManager._handle_authenticate passes to it (token)
AuthenticateArgsPassed == 1
\* Close codes used by the registry and the endpoint
CloseNormal == 1000
CloseTimeout == 1001
CloseSendError == 1011
ClosePolicy == 1008
\* WebSocketRateLimiter.cleanup_interval
cleanup_interval == 300
\* _heartbeat_loop: await asyncio.sleep(30)
HeartbeatInterval == 30
\* _send_heartbeat: time_since_pong > timedelta(minutes=2), in seconds
PongTimeout == 120

\* ---------------------------------------------------------------- domains

Ids == 1 .. MaxConns
SessionIds == 1 .. MaxSessions
NoId == 0
\* Optional[datetime] = None
NoTime == 0 - 1
None == "none"
Users == {"u1", "u2"}

\* SubscriptionType
SubscriptionType == {"all", "instance_status", "messages", "agent_events",
                     "system_events", "user_events"}
\* The tags the modelled clients and producers use
Tags == {"messages", "instance_status"}
\* The tag used where the users of the connections vary as well
OneTag == {"messages"}

\* ConnectionState
CONNECTING == "connecting"
CONNECTED == "connected"
AUTHENTICATED == "authenticated"
DISCONNECTING == "disconnecting"
DISCONNECTED == "disconnected"

\* EventType members the registry and the control handlers send
CONNECTION_ESTABLISHED == "connection_established"
AUTHENTICATION_SUCCESS == "authentication_success"
AUTHENTICATION_FAILED == "authentication_failed"
SUBSCRIPTION_CONFIRMED == "subscription_confirmed"
MESSAGE_RECEIVED == "message_received"
PING == "ping"
PONG == "pong"

\* ---------------------------------------------------------- dict helpers

\* dict.get(k, d)
Get(f, k, d) == IF k \in DOMAIN f THEN f[k] ELSE d
\* d[k] = v
Put(f, k, v) == [x \in (DOMAIN f) \cup {k} |-> IF x = k THEN v ELSE f[x]]
\* del d[k]
Del(f, k) == [x \in (DOMAIN f) \ {k} |-> f[x]]
EmptyDict == <<>>

VARIABLES
    \* ConnectionManager
    connections,               \* connection id -> WebSocketConnection
    user_connections,          \* user id -> set of connection ids (defaultdict)
    subscription_connections,  \* SubscriptionType -> set of connection ids (defaultdict)
    nextId,                    \* uuid4: the next unused connection id
    \* WebSocketAuthenticator
    active_sessions,           \* connection id -> WebSocketSession
    user_sessions,             \* user id -> set of connection ids (defaultdict)
    auth_attempts,             \* audit log
    local_buckets,             \* WebSocketRateLimiter.local_buckets
    now,                       \* datetime.now(timezone.utc)
    \* WebSocketRateLimiter with a shared cache
    redis_store,               \* key -> sorted set (member str(score), so the scores)
    rate_calls,                \* the is_allowed calls made so far and their answers
    \* WebSocketManager
    event_handlers,            \* EventType -> list of callables (defaultdict)
    \* WebSocketHandlers
    handlers,                  \* EventType -> EventHandler
    events_processed,          \* handlers that returned True
    events_failed,             \* handlers that returned False or raised
    \* logger
    warnings,                  \* connection ids _handle_message logged a rejected frame of
    \* coroutines and tasks of the event loop
    closing,                   \* connection id -> disconnect calls suspended in websocket.close
    tasks,                     \* background task -> where it stands
    broadcast,                 \* the broadcast loop in progress
    hung,                      \* connections whose socket never completes a send
    \* what the last handler did on the sockets and what it returned
    last

regVars == <<connections, user_connections, subscription_connections, nextId>>
authVars == <<active_sessions, user_sessions, auth_attempts, local_buckets>>
rateVars == <<redis_store, rate_calls>>
dispatchVars == <<event_handlers, handlers, events_processed, events_failed, warnings>>
asyncVars == <<closing, tasks, broadcast, hung>>
vars == <<connections, user_connections, subscription_connections, nextId,
          active_sessions, user_sessions, auth_attempts, local_buckets, now,
          redis_store, rate_calls, event_handlers, handlers, events_processed,
          events_failed, warnings, closing, tasks, broadcast, hung, last>>

\* ------------------------------------------------------ ConnectionManager

\* The registry together with the socket effects of the running handler:
\* sent (envelopes written, in order), failed (sockets whose send raised)
\* and closed (the close calls made, in order, with the close code).
Machine == [connections |-> connections,
            user_connections |-> user_connections,
            subscription_connections |-> subscription_connections,
            sent |-> <<>>, failed |-> {}, closed |-> <<>>]

\* WebSocketConnection(id, websocket, state=CONNECTED)
NewConnection == [user |-> None, state |-> CONNECTED, subscriptions |-> {},
                  connected_at |-> now, last_ping |-> NoTime, last_pong |-> NoTime]

\* WebSocketConnection.is_alive
is_alive(conn) == conn.state \in {CONNECTED, AUTHENTICATED}

\* WebSocketConnection.is_authenticated
is_authenticated(conn) == conn.state = AUTHENTICATED /\ conn.user # None

\* disconnect without the loop over connection.subscriptions
disconnect_keeps_subscriptions(M, connection_id, code) ==
    IF connection_id \notin DOMAIN M.connections THEN M
    ELSE
      LET uid == M.connections[connection_id].user
          ucs == Get(M.user_connections, uid, {}) \ {connection_id}
      IN [M EXCEPT !.connections = Del(M.connections, connection_id),
                   !.user_connections =
                       IF uid = None THEN @
                       ELSE IF ucs = {} THEN Del(@, uid) ELSE Put(@, uid, ucs),
                   !.closed = Append(M.closed, <<connection_id, code>>)]

\* disconnect without the final del self.connections[connection_id]
disconnect_keeps_entry(M, connection_id, code) ==
    IF connection_id \notin DOMAIN M.connections THEN M
    ELSE
      LET connection == M.connections[connection_id]
          uid == connection.user
          ucs == Get(M.user_connections, uid, {}) \ {connection_id}
      IN [M EXCEPT !.connections[connection_id].state = DISCONNECTED,
                   !.user_connections =
                       IF uid = None THEN @
                       ELSE IF ucs = {} THEN Del(@, uid) ELSE Put(@, uid, ucs),
                   !.subscription_connections =
                       [t \in (DOMAIN @) \cup connection.subscriptions |->
                          IF t \in connection.subscriptions
                          THEN Get(@, t, {}) \ {connection_id} ELSE @[t]],
                   !.closed = Append(M.closed, <<connection_id, code>>)]

\* ConnectionManager.disconnect.  The close may raise; the exception is
\* swallowed, so the index cleanup runs either way.
disconnect(M, connection_id, code) ==
    IF connection_id \notin DOMAIN M.connections THEN M
    ELSE
      LET connection == M.connections[connection_id]
          uid == connection.user
          \* self.user_connections[uid].discard(id); del when empty
          ucs == Get(M.user_connections, uid, {}) \ {connection_id}
          uc == IF uid = None THEN M.user_connections
                ELSE IF ucs = {} THEN Del(M.user_connections, uid)
                ELSE Put(M.user_connections, uid, ucs)
          \* for subscription in connection.subscriptions: index.discard(id)
          sc == [t \in (DOMAIN M.subscription_connections) \cup connection.subscriptions |->
                   IF t \in connection.subscriptions
                   THEN Get(M.subscription_connections, t, {}) \ {connection_id}
                   ELSE M.subscription_connections[t]]
      IN [M EXCEPT !.connections = Del(M.connections, connection_id),
                   !.user_connections = uc,
                   !.subscription_connections = sc,
                   !.closed = Append(M.closed, <<connection_id, code>>)]

\* disconnect whose close error leaves the function: the cleanup is skipped
disconnect_closing_propagates(M, connection_id, code, close_raises) ==
    IF connection_id \in DOMAIN M.connections /\ close_raises
    THEN [m |-> [M EXCEPT !.connections[connection_id].state = DISCONNECTING,
                          !.closed = Append(M.closed, <<connection_id, code>>)],
          raised |-> TRUE]
    ELSE [m |-> disconnect(M, connection_id, code), raised |-> FALSE]

\* disconnect with the outcome of websocket.close made explicit: [m, raised].
\* An exception of the close is caught and logged, and the removal from
\* the indices and the live map follows in either case.
disconnect_closing(M, connection_id, code, close_raises) ==
    IF connection_id \notin DOMAIN M.connections THEN [m |-> M, raised |-> FALSE]
    ELSE IF close_raises
    THEN [m |-> disconnect(M, connection_id, code), raised |-> FALSE]
    ELSE [m |-> disconnect(M, connection_id, code), raised |-> FALSE]

\* disconnect up to its await of websocket.close: [m, suspended].  The
\* state is DISCONNECTING while the close is awaited.
disconnect_begin(M, connection_id, code) ==
    IF connection_id \notin DOMAIN M.connections THEN [m |-> M, suspended |-> FALSE]
    ELSE [m |-> [M EXCEPT !.connections[connection_id].state = DISCONNECTING,
                          !.closed = Append(M.closed, <<connection_id, code>>)],
          suspended |-> TRUE]

\* disconnect from the return of websocket.close on: [m, raised].  The
\* final del raises KeyError when another disconnect of the same
\* connection has run in between.
disconnect_resume(M, connection_id) ==
    IF connection_id \notin DOMAIN M.connections THEN [m |-> M, raised |-> TRUE]
    ELSE [m |-> [disconnect(M, connection_id, CloseNormal) EXCEPT !.closed = M.closed],
          raised |-> FALSE]

\* send_to_connection whose except branch does not disconnect
send_to_connection_no_disconnect(M, connection_id, etype, bad) ==
    IF connection_id \notin DOMAIN M.connections THEN [m |-> M, ret |-> FALSE]
    ELSE IF ~is_alive(M.connections[connection_id]) THEN [m |-> M, ret |-> FALSE]
    ELSE IF connection_id \notin bad
      THEN [m |-> [M EXCEPT !.sent = Append(M.sent, [to |-> connection_id, type |-> etype])],
            ret |-> TRUE]
      ELSE [m |-> [M EXCEPT !.failed = M.failed \cup {connection_id}], ret |-> FALSE]

\* ConnectionManager.send_to_connection: [m, ret].  bad is the set of
\* sockets whose send_text raises during this handler.
send_to_connection(M, connection_id, etype, bad) ==
    IF connection_id \notin DOMAIN M.connections THEN [m |-> M, ret |-> FALSE]
    ELSE IF ~is_alive(M.connections[connection_id]) THEN [m |-> M, ret |-> FALSE]
    ELSE IF connection_id \notin bad
      THEN [m |-> [M EXCEPT !.sent = Append(M.sent, [to |-> connection_id, type |-> etype])],
            ret |-> TRUE]
      ELSE [m |-> disconnect([M EXCEPT !.failed = M.failed \cup {connection_id}],
                             connection_id, CloseSendError),
            ret |-> FALSE]

\* send_to_connection of an event whose payload matters: the envelope
\* written is json.dumps(event.to_dict()), so it carries event.data.
send_to_connection_event(M, connection_id, event, bad) ==
    LET r == send_to_connection(M, connection_id, event.type, bad)
    IN IF r.ret
       THEN [m |-> [r.m EXCEPT !.sent[Len(r.m.sent)] =
                        [to |-> connection_id, type |-> event.type, data |-> event.data]],
             ret |-> TRUE]
       ELSE r

\* for connection_id in connection_ids:
\*     if await self.send_to_connection(connection_id, event): sent_count += 1
RECURSIVE SendEach(_, _, _, _)
SendEach(M, connection_ids, etype, bad) ==
    IF connection_ids = {} THEN [m |-> M, ret |-> 0]
    ELSE LET c == CHOOSE x \in connection_ids : \A y \in connection_ids : x <= y
             one == send_to_connection(M, c, etype, bad)
             rest == SendEach(one.m, connection_ids \ {c}, etype, bad)
         IN [m |-> rest.m, ret |-> rest.ret + (IF one.ret THEN 1 ELSE 0)]

\* connect that registers the connection and sends no welcome envelope
connect_without_welcome(M, connection_id, bad) ==
    [M EXCEPT !.connections = Put(M.connections, connection_id, NewConnection)]

\* ConnectionManager.connect (the id is a fresh uuid4)
connect(M, connection_id, bad) ==
    send_to_connection_event(
        [M EXCEPT !.connections = Put(M.connections, connection_id, NewConnection)],
        connection_id,
        [type |-> CONNECTION_ESTABLISHED,
         data |-> [connection_id |-> connection_id, timestamp |-> now]],
        bad).m

\* ConnectionManager.authenticate_connection: [m, raised]
authenticate_connection(M, connection_id, user, bad) ==
    IF connection_id \notin DOMAIN M.connections THEN [m |-> M, raised |-> TRUE]
    ELSE
      LET M1 == [M EXCEPT !.connections[connection_id].user = user,
                          !.connections[connection_id].state = AUTHENTICATED,
                          !.user_connections =
                              Put(M.user_connections, user,
                                  Get(M.user_connections, user, {}) \cup {connection_id})]
      IN [m |-> send_to_connection(M1, connection_id, AUTHENTICATION_SUCCESS, bad).m,
          raised |-> FALSE]

\* ConnectionManager.subscribe: [m, raised]
subscribe(M, connection_id, subscription_type, bad) ==
    IF connection_id \notin DOMAIN M.connections THEN [m |-> M, raised |-> TRUE]
    ELSE
      LET M1 == [M EXCEPT !.connections[connection_id].subscriptions = @ \cup {subscription_type},
                          !.subscription_connections =
                              Put(M.subscription_connections, subscription_type,
                                  Get(M.subscription_connections, subscription_type, {})
                                      \cup {connection_id})]
      IN [m |-> send_to_connection(M1, connection_id, SUBSCRIPTION_CONFIRMED, bad).m,
          raised |-> FALSE]

\* unsubscribe that leaves the subscription index alone
unsubscribe_keeps_index(M, connection_id, subscription_type) ==
    IF connection_id \notin DOMAIN M.connections THEN M
    ELSE [M EXCEPT !.connections[connection_id].subscriptions = @ \ {subscription_type}]

\* ConnectionManager.unsubscribe
unsubscribe(M, connection_id, subscription_type) ==
    IF connection_id \notin DOMAIN M.connections THEN M
    ELSE [M EXCEPT !.connections[connection_id].subscriptions = @ \ {subscription_type},
                   !.subscription_connections =
                       Put(M.subscription_connections, subscription_type,
                           Get(M.subscription_connections, subscription_type, {})
                               \ {connection_id})]

\* ConnectionManager.send_to_user: [m, ret]
send_to_user(M, user_id, etype, bad) ==
    IF user_id \notin DOMAIN M.user_connections THEN [m |-> M, ret |-> 0]
    ELSE SendEach(M, M.user_connections[user_id], etype, bad)

\* ConnectionManager.broadcast_to_subscription: [m, ret]
broadcast_to_subscription(M, subscription_type, etype, bad) ==
    IF subscription_type \notin DOMAIN M.subscription_connections THEN [m |-> M, ret |-> 0]
    ELSE SendEach(M, M.subscription_connections[subscription_type], etype, bad)

\* ConnectionManager.broadcast_to_all: [m, ret]
broadcast_to_all(M, etype, bad) ==
    SendEach(M, DOMAIN M.connections, etype, bad)

\* ConnectionManager.handle_ping.  The PONG it builds carries
\* connection.last_ping, the server's clock reading.
handle_ping(M, connection_id, t, bad) ==
    IF connection_id \notin DOMAIN M.connections THEN M
    ELSE
      LET M1 == [M EXCEPT !.connections[connection_id].last_ping = t]
      IN send_to_connection_event(
             M1, connection_id,
             [type |-> PONG,
              data |-> [timestamp |-> M1.connections[connection_id].last_ping]],
             bad).m

\* ConnectionManager.handle_pong
handle_pong(M, connection_id, t) ==
    IF connection_id \notin DOMAIN M.connections THEN M
    ELSE [M EXCEPT !.connections[connection_id].last_pong = t]

\* for connection_id in stale_connections: await self.disconnect(connection_id, code=...)
RECURSIVE DisconnectEach(_, _, _)
DisconnectEach(M, connection_ids, code) ==
    IF connection_ids = {} THEN M
    ELSE LET c == CHOOSE x \in connection_ids : \A y \in connection_ids : x <= y
         IN DisconnectEach(disconnect(M, c, code), connection_ids \ {c}, code)

\* The first loop of _send_heartbeat over self.connections.items(), in
\* insertion order: [m, stale, raised].  A send that fails disconnects its
\* target inside send_to_connection, which deletes from the dict under
\* iteration; the loop's next step then raises RuntimeError.
RECURSIVE HeartbeatEach(_, _, _, _, _, _)
HeartbeatEach(M, connection_ids, stale, t, badPing, badSend) ==
    IF connection_ids = {} THEN [m |-> M, stale |-> stale, raised |-> FALSE]
    ELSE
      LET c == CHOOSE x \in connection_ids : \A y \in connection_ids : x <= y
          connection == M.connections[c]
          M1 == [M EXCEPT !.connections[c].last_ping = t]
          s == send_to_connection(M1, c, PING, badSend)
          rest == connection_ids \ {c}
      IN IF connection.last_pong # NoTime /\ t - connection.last_pong > PongTimeout
         THEN HeartbeatEach(M, rest, stale \cup {c}, t, badPing, badSend)
         ELSE IF c \in badPing
         THEN HeartbeatEach(M, rest, stale \cup {c}, t, badPing, badSend)
         ELSE IF c \in DOMAIN s.m.connections
         THEN HeartbeatEach(s.m, rest, stale, t, badPing, badSend)
         ELSE [m |-> s.m, stale |-> stale, raised |-> TRUE]

\* ConnectionManager._send_heartbeat: [m, raised].  badPing are the sockets
\* whose websocket.ping() raises, badSend those whose send_text raises.
_send_heartbeat(M, t, badPing, badSend) ==
    LET r == HeartbeatEach(M, DOMAIN M.connections, {}, t, badPing, badSend)
    IN IF r.raised THEN [m |-> r.m, raised |-> TRUE]
       ELSE [m |-> DisconnectEach(r.m, r.stale, CloseTimeout), raised |-> FALSE]

\* ------------------------------------------------- WebSocketRateLimiter

\* key = f"ws_rate_limit:{user_id}:{action}"
RateKey(user_id, action) == "ws_rate_limit:" \o user_id \o ":" \o action

\* WebSocketRateLimiter._check_local_rate_limit: [b, ret]
_check_local_rate_limit(B, key, limit, window, t) ==
    LET B1 == IF key \notin DOMAIN B
              THEN Put(B, key, [requests |-> <<>>, last_cleanup |-> t]) ELSE B
        cutoff_time == t - window
        Recent(req_time) == req_time > cutoff_time
        requests == SelectSeq(B1[key].requests, Recent)
    IN IF Len(requests) >= limit
       THEN [b |-> Put(B1, key, [B1[key] EXCEPT !.requests = requests]), ret |-> FALSE]
       ELSE [b |-> Put(B1, key, [requests |-> Append(requests, t), last_cleanup |-> t]),
             ret |-> TRUE]

\* WebSocketRateLimiter.is_allowed (the authenticator is built without a
\* shared cache, so the local backend answers)
is_allowed(B, user_id, action, limit, window, t) ==
    _check_local_rate_limit(B, RateKey(user_id, action), limit, window, t)

\* Outcomes of the shared cache during one pipeline: it answers, or it
\* raises before or after the queued commands were applied
RedisOutcomes == {"ok", "error_before", "error_after"}

\* _check_redis_rate_limit that refuses when the shared cache raises
_check_redis_rate_limit_fail_closed(Z, key, limit, window, t, outcome) ==
    LET kept == {score \in Get(Z, key, {}) : ~(0 <= score /\ score <= t - window)}
    IN IF outcome = "ok"
       THEN [z |-> Put(Z, key, kept \cup {t}), ret |-> Cardinality(kept) < limit]
       ELSE [z |-> Z, ret |-> FALSE]

\* WebSocketRateLimiter._check_redis_rate_limit: [z, ret].  The sorted set of
\* a key is kept as its set of scores (each member is str(score)).
_check_redis_rate_limit(Z, key, limit, window, t, outcome) ==
    LET zset == Get(Z, key, {})
        \* pipe.zremrangebyscore(key, 0, now - window)
        kept == {score \in zset : ~(0 <= score /\ score <= t - window)}
        \* pipe.zcard(key)
        current_count == Cardinality(kept)
        \* pipe.zadd(key, {str(now): now})
        Z1 == Put(Z, key, kept \cup {t})
    IN CASE outcome = "ok" -> [z |-> Z1, ret |-> current_count < limit]
         [] outcome = "error_before" -> [z |-> Z, ret |-> TRUE]
         [] OTHER -> [z |-> Z1, ret |-> TRUE]

\* WebSocketRateLimiter.is_allowed of a limiter built with a shared cache
is_allowed_redis(Z, user_id, action, limit, window, t, outcome) ==
    _check_redis_rate_limit(Z, RateKey(user_id, action), limit, window, t, outcome)

\* ----------------------------------------------- WebSocketAuthenticator

\* The authenticator's own state, as one value.
Auth == [active_sessions |-> active_sessions, user_sessions |-> user_sessions,
         auth_attempts |-> auth_attempts, local_buckets |-> local_buckets]

\* Role of each user the identity provider knows
RoleOf(user) == IF user = "u1" THEN "admin" ELSE "viewer"

\* WebSocketAuthenticator.role_permissions
role_permissions(role) ==
    CASE role = "admin" -> {"admin", "read", "write", "delete", "manage_instances",
                            "send_messages", "view_logs", "manage_users", "system_control"}
      [] role = "user" -> {"read", "write", "manage_instances", "send_messages"}
      [] role = "viewer" -> {"read", "view_logs"}
      [] OTHER -> {}

\* Credentials a client may present
JwtTokens == {"jwt_u1", "jwt_u2"}
ApiKeys == {"key_u1", "key_u2"}
Credentials == JwtTokens \cup ApiKeys \cup {"invalid_token"}

\* JWTAuthenticator.verify_token: [ok, user]
verify_token(token) ==
    CASE token = "jwt_u1" -> [ok |-> TRUE, user |-> "u1"]
      [] token = "jwt_u2" -> [ok |-> TRUE, user |-> "u2"]
      [] OTHER -> [ok |-> FALSE, user |-> None]

\* JWTAuthenticator.verify_api_key: [ok, user]
verify_api_key(api_key) ==
    CASE api_key = "key_u1" -> [ok |-> TRUE, user |-> "u1"]
      [] api_key = "key_u2" -> [ok |-> TRUE, user |-> "u2"]
      [] OTHER -> [ok |-> FALSE, user |-> None]

\* WebSocketAuthenticator.remove_session
remove_session(A, connection_id) ==
    IF connection_id \notin DOMAIN A.active_sessions THEN A
    ELSE
      LET user_id == A.active_sessions[connection_id].user
          left == Get(A.user_sessions, user_id, {}) \ {connection_id}
      IN [A EXCEPT !.active_sessions = Del(A.active_sessions, connection_id),
                   !.user_sessions = IF left = {} THEN Del(A.user_sessions, user_id)
                                     ELSE Put(A.user_sessions, user_id, left)]

\* _create_session without the removal of the connection's existing session
_create_session_keeps_old(A, user, connection_id, t) ==
    LET session == [user |-> user, last_activity |-> t,
                    permissions |-> role_permissions(RoleOf(user))]
    IN [A EXCEPT !.active_sessions = Put(A.active_sessions, connection_id, session),
                 !.user_sessions = Put(A.user_sessions, user,
                                       Get(A.user_sessions, user, {}) \cup {connection_id})]

\* WebSocketAuthenticator._create_session
_create_session(A, user, connection_id, t) ==
    LET A1 == IF connection_id \in DOMAIN A.active_sessions
              THEN remove_session(A, connection_id) ELSE A
        session == [user |-> user, last_activity |-> t,
                    permissions |-> role_permissions(RoleOf(user))]
    IN [A1 EXCEPT !.active_sessions = Put(A1.active_sessions, connection_id, session),
                  !.user_sessions = Put(A1.user_sessions, user,
                                        Get(A1.user_sessions, user, {}) \cup {connection_id})]

\* WebSocketAuthenticator._log_auth_attempt
_log_auth_attempt(A, connection_id, success, user_id) ==
    LET log == Append(A.auth_attempts,
                      [connection_id |-> connection_id, user_id |-> user_id,
                       success |-> success])
    IN [A EXCEPT !.auth_attempts =
            IF Len(log) > max_auth_attempts
            THEN SubSeq(log, Len(log) - max_auth_attempts + 1, Len(log)) ELSE log]

\* authenticate that creates the session before it asks the rate limiter
authenticate_session_first(A, token, connection_id, t) ==
    LET v == verify_token(token)
        rl == is_allowed(A.local_buckets, v.user, "auth", AuthLimit, AuthWindow, t)
        A1 == [A EXCEPT !.local_buckets = rl.b]
    IN IF ~v.ok
       THEN [a |-> _log_auth_attempt(A, connection_id, FALSE, None),
             raised |-> TRUE, user |-> None]
       ELSE IF ~rl.ret
       THEN [a |-> _log_auth_attempt(_create_session(A1, v.user, connection_id, t),
                                     connection_id, FALSE, None),
             raised |-> TRUE, user |-> None]
       ELSE [a |-> _log_auth_attempt(_create_session(A1, v.user, connection_id, t),
                                     connection_id, TRUE, v.user),
             raised |-> FALSE, user |-> v.user]

\* authenticate that leaves no audit entry when the rate limit refuses
authenticate_unaudited_refusal(A, token, connection_id, t) ==
    LET v == verify_token(token)
        rl == is_allowed(A.local_buckets, v.user, "auth", AuthLimit, AuthWindow, t)
        A1 == [A EXCEPT !.local_buckets = rl.b]
    IN IF ~v.ok
       THEN [a |-> _log_auth_attempt(A, connection_id, FALSE, None),
             raised |-> TRUE, user |-> None]
       ELSE IF ~rl.ret
       THEN [a |-> A1, raised |-> TRUE, user |-> None]
       ELSE [a |-> _log_auth_attempt(_create_session(A1, v.user, connection_id, t),
                                     connection_id, TRUE, v.user),
             raised |-> FALSE, user |-> v.user]

\* WebSocketAuthenticator.authenticate: [a, raised, user]
authenticate(A, token, connection_id, t) ==
    LET v == verify_token(token)
        rl == is_allowed(A.local_buckets, v.user, "auth", AuthLimit, AuthWindow, t)
        A1 == [A EXCEPT !.local_buckets = rl.b]
    IN IF ~v.ok
       THEN [a |-> _log_auth_attempt(A, connection_id, FALSE, None),
             raised |-> TRUE, user |-> None]
       ELSE IF ~rl.ret
       THEN [a |-> _log_auth_attempt(A1, connection_id, FALSE, None),
             raised |-> TRUE, user |-> None]
       ELSE [a |-> _log_auth_attempt(_create_session(A1, v.user, connection_id, t),
                                     connection_id, TRUE, v.user),
             raised |-> FALSE, user |-> v.user]

\* WebSocketAuthenticator.authenticate_api_key: [a, raised, user]
authenticate_api_key(A, api_key, connection_id, t) ==
    LET v == verify_api_key(api_key)
    IN IF ~v.ok THEN [a |-> A, raised |-> TRUE, user |-> None]
       ELSE [a |-> _create_session(A, v.user, connection_id, t),
             raised |-> FALSE, user |-> v.user]

\* for connection_id in connection_ids: await self.remove_session(connection_id)
RECURSIVE RemoveEach(_, _)
RemoveEach(A, connection_ids) ==
    IF connection_ids = {} THEN A
    ELSE LET c == CHOOSE x \in connection_ids : \A y \in connection_ids : x <= y
         IN RemoveEach(remove_session(A, c), connection_ids \ {c})

\* WebSocketAuthenticator.revoke_user_sessions: [a, ret]
revoke_user_sessions(A, user_id) ==
    IF user_id \notin DOMAIN A.user_sessions THEN [a |-> A, ret |-> 0]
    ELSE [a |-> RemoveEach(A, A.user_sessions[user_id]),
          ret |-> Cardinality(A.user_sessions[user_id])]

\* WebSocketSession.idle_time
idle_time(session, t) == t - session.last_activity

\* cleanup_expired_sessions that also removes the sessions idle for exactly
\* max_idle_time
cleanup_expired_sessions_inclusive(A, max_idle_time, t) ==
    RemoveEach(A, {c \in DOMAIN A.active_sessions :
                     idle_time(A.active_sessions[c], t) >= max_idle_time})

\* WebSocketAuthenticator.cleanup_expired_sessions
cleanup_expired_sessions(A, max_idle_time, t) ==
    RemoveEach(A, {c \in DOMAIN A.active_sessions :
                     idle_time(A.active_sessions[c], t) > max_idle_time})

\* has_permission without the override of "admin"
has_permission_listed_only(session, permission) ==
    permission \in session.permissions

\* WebSocketSession.has_permission
has_permission(session, permission) ==
    permission \in session.permissions \/ "admin" \in session.permissions

\* WebSocketAuthenticator.get_session: [a, found].  A session that is found
\* has its last_activity set to the time of the call.
get_session(A, connection_id, t) ==
    IF connection_id \in DOMAIN A.active_sessions
    THEN [a |-> [A EXCEPT !.active_sessions[connection_id].last_activity = t],
          found |-> TRUE]
    ELSE [a |-> A, found |-> FALSE]

\* WebSocketAuthenticator.verify_permission: [a, ret]
verify_permission(A, connection_id, permission, t) ==
    IF ~get_session(A, connection_id, t).found
    THEN [a |-> A, ret |-> FALSE]
    ELSE [a |-> get_session(A, connection_id, t).a,
          ret |-> has_permission(A.active_sessions[connection_id], permission)]

\* check_rate_limit that counts per connection instead of per user
check_rate_limit_per_connection(A, connection_id, action, limit, window, t) ==
    IF ~get_session(A, connection_id, t).found
    THEN [a |-> A, ret |-> FALSE]
    ELSE LET A1 == get_session(A, connection_id, t).a
             rl == is_allowed(A1.local_buckets, ToString(connection_id),
                              action, limit, window, t)
         IN [a |-> [A1 EXCEPT !.local_buckets = rl.b], ret |-> rl.ret]

\* WebSocketAuthenticator.check_rate_limit: [a, ret]
check_rate_limit(A, connection_id, action, limit, window, t) ==
    IF ~get_session(A, connection_id, t).found
    THEN [a |-> A, ret |-> FALSE]
    ELSE LET A1 == get_session(A, connection_id, t).a
             rl == is_allowed(A1.local_buckets, A1.active_sessions[connection_id].user,
                              action, limit, window, t)
         IN [a |-> [A1 EXCEPT !.local_buckets = rl.b], ret |-> rl.ret]

\* ----------------------------------------------------- WebSocketManager

\* The call self.authenticator.authenticate(token) of _handle_authenticate
\* binds only when it passes as many positional arguments as
\* authenticate(self, token, connection_id) requires; otherwise Python
\* raises TypeError before the body runs.
AuthenticateCallBinds == AuthenticateArgsPassed = AuthenticateParams

\* _handle_authenticate that returns silently when the token is missing
_handle_authenticate_silent(M, A, connection_id, token, bad, t) ==
    IF token = "" THEN [m |-> M, a |-> A]
    ELSE [m |-> send_to_connection(M, connection_id, AUTHENTICATION_FAILED, bad).m, a |-> A]

\* WebSocketManager._handle_authenticate: [m, a].  token = "" stands for an
\* absent or empty 'token' entry of the event data.
_handle_authenticate(M, A, connection_id, token, bad, t) ==
    LET fail(M1) == send_to_connection(M1, connection_id, AUTHENTICATION_FAILED, bad).m
        r == authenticate(A, token, connection_id, t)
        ac == authenticate_connection(M, connection_id, r.user, bad)
    IN IF token = "" THEN [m |-> fail(M), a |-> A]
       ELSE IF ~AuthenticateCallBinds THEN [m |-> fail(M), a |-> A]
       ELSE IF r.raised THEN [m |-> fail(M), a |-> r.a]
       ELSE IF ac.raised THEN [m |-> fail(ac.m), a |-> r.a]
       ELSE [m |-> ac.m, a |-> r.a]

\* _handle_subscribe that hands the tag on without converting it to a
\* SubscriptionType
_handle_subscribe_unchecked(M, connection_id, subscription_type, bad) ==
    IF subscription_type = "" THEN M
    ELSE subscribe(M, connection_id, subscription_type, bad).m

\* WebSocketManager._handle_subscribe.  subscription_type = "" stands for
\* an absent or empty entry; the ValueError of an unknown tag, and the one
\* subscribe raises for an unknown connection, are both swallowed.
_handle_subscribe(M, connection_id, subscription_type, bad) ==
    IF subscription_type = "" THEN M
    ELSE IF subscription_type \notin SubscriptionType THEN M
    ELSE subscribe(M, connection_id, subscription_type, bad).m

\* WebSocketManager._handle_unsubscribe
_handle_unsubscribe(M, connection_id, subscription_type) ==
    IF subscription_type = "" THEN M
    ELSE IF subscription_type \notin SubscriptionType THEN M
    ELSE unsubscribe(M, connection_id, subscription_type)

\* ------------------------------------------------------------ /ws endpoint

\* websocket_endpoint up to its read loop: [m, a, raised, user].  The
\* credential is tried as a bearer token, then as an API key; on failure the
\* socket is closed with 1008 and nothing is registered.  bad1 and bad2 are
\* the sockets whose send raises during connect and during
\* authenticate_connection.
websocket_endpoint(M, A, connection_id, credentials, bad1, bad2, t) ==
    LET r1 == authenticate(A, credentials, connection_id, t)
        r2 == authenticate_api_key(r1.a, credentials, connection_id, t)
        r == IF r1.raised THEN r2 ELSE r1
        M1 == connect(M, connection_id, bad1)
        ac == authenticate_connection(M1, connection_id, r.user, bad2)
    IN IF r.raised
       THEN [m |-> [M EXCEPT !.closed = Append(M.closed, <<connection_id, ClosePolicy>>)],
             a |-> r.a, raised |-> FALSE, user |-> None]
       ELSE [m |-> ac.m, a |-> r.a, raised |-> ac.raised, user |-> r.user]

\* ------------------------------------------------------ WebSocketHandlers

\* supported_events of the four handler classes
supported_events(handler) ==
    CASE handler = "InstanceEventHandler" ->
            {"instance_status_changed", "instance_created", "instance_deleted",
             "instance_connected", "instance_disconnected", "qr_code_generated"}
      [] handler = "MessageEventHandler" ->
            {"message_received", "message_sent", "message_delivered", "message_read",
             "message_failed"}
      [] handler = "AgentEventHandler" ->
            {"agent_created", "agent_updated", "agent_deleted", "agent_materialized",
             "agent_response", "agent_error"}
      [] handler = "SystemEventHandler" ->
            {"system_status", "system_error", "system_maintenance",
             "rate_limit_exceeded", "performance_metrics", "health_check"}

BuiltinHandlers ==
    {"InstanceEventHandler", "MessageEventHandler", "AgentEventHandler",
     "SystemEventHandler"}

\* WebSocketHandlers._setup_handlers: the instance and message handlers are
\* built only with an evolution service, the agent handler only with an
\* agno service, the system handler always; each is entered under every
\* type it supports (no type is supported by two of them)
_setup_handlers(evolution_service, agno_service) ==
    LET built == (IF evolution_service
                  THEN {"InstanceEventHandler", "MessageEventHandler"} ELSE {})
                 \cup (IF agno_service THEN {"AgentEventHandler"} ELSE {})
                 \cup {"SystemEventHandler"}
    IN [event_type \in UNION {supported_events(h) : h \in built}
          |-> CHOOSE h \in built : event_type \in supported_events(h)]

\* What handler.handle(event) can do.  The four handler classes catch
\* every exception themselves and return False; a handler given to
\* add_handler is any EventHandler.
HandleOutcomes(handler) ==
    IF handler \in BuiltinHandlers THEN {"true", "false"}
    ELSE {"true", "false", "raise"}

\* WebSocketHandlers as a value
Dispatcher ==
    [handlers |-> handlers, events_processed |-> events_processed,
     events_failed |-> events_failed]

\* WebSocketHandlers.process_event: [h, ret, raised].  outcome is what the
\* handler's handle does with this event.
process_event(H, event_type, outcome) ==
    IF event_type \notin DOMAIN H.handlers
    THEN [h |-> H, ret |-> FALSE, raised |-> FALSE]
    ELSE IF outcome = "raise"
    THEN [h |-> [H EXCEPT !.events_failed = @ + 1], ret |-> FALSE, raised |-> FALSE]
    ELSE IF outcome = "true"
    THEN [h |-> [H EXCEPT !.events_processed = @ + 1], ret |-> TRUE, raised |-> FALSE]
    ELSE [h |-> [H EXCEPT !.events_failed = @ + 1], ret |-> FALSE, raised |-> FALSE]

\* WebSocketHandlers.add_handler and remove_handler
add_handler(H, event_type, handler) ==
    [H EXCEPT !.handlers = Put(@, event_type, handler)]

remove_handler(H, event_type) ==
    [H EXCEPT !.handlers = Del(@, event_type)]

\* -------------------------------------------------------- background tasks

\* The tasks created at construction: ConnectionManager._start_background_tasks
\* creates the first three, WebSocketRateLimiter._start_cleanup_task (no
\* shared cache) the fourth.  Each starts suspended in its loop's sleep.
ManagerTasks == {"_heartbeat_loop", "_cleanup_loop", "_stats_loop"}
LimiterTasks == {"rate_limiter._cleanup_loop"}
_start_background_tasks == [task \in ManagerTasks \cup LimiterTasks |-> "sleeping"]

\* task.cancel() on a task: one that is suspended gets CancelledError at
\* its await, which its loop catches, logs and returns from; one that has
\* ended is left as it is
cancel(state) == IF state = "sleeping" THEN "cancelled" ELSE state

\* ConnectionManager.shutdown: cancels its three tasks and gathers them
shutdown(T) ==
    [task \in DOMAIN T |-> IF task \in ManagerTasks THEN cancel(T[task]) ELSE T[task]]

\* No broadcast loop is running
NoBroadcast ==
    [op |-> "none", connection_ids |-> {}, sent_count |-> 0, awaiting |-> NoId,
     delivered |-> {}]

\* ------------------------------------------------------------------ state

Absent == [user |-> None, state |-> "absent", subscriptions |-> {}]

\* The connection as the handler finds it
PreConn(connection_id) == Get(connections, connection_id, Absent)

\* The session as the handler finds it
PreSession(connection_id) ==
    IF connection_id \in DOMAIN active_sessions
    THEN [user |-> active_sessions[connection_id].user, state |-> "session",
          subscriptions |-> {}]
    ELSE Absent

NoEffects == [sent |-> <<>>, failed |-> {}, closed |-> <<>>]

\* What a handler leaves for the observer
Obs(op, cid, arg, pre, targets, m, ret, raised) ==
    [op |-> op, cid |-> cid, arg |-> arg, pre |-> pre, targets |-> targets,
     sent |-> m.sent, failed |-> m.failed, closed |-> m.closed,
     ret |-> ret, raised |-> raised]

\* The connections the last handler wrote envelope etype to
DeliveredOf(l, etype) ==
    {l.sent[i].to : i \in {j \in 1 .. Len(l.sent) : l.sent[j].type = etype}}

\* How many envelopes of type etype the last handler wrote to connection c
CountSent(l, c, etype) ==
    Cardinality({i \in 1 .. Len(l.sent) : l.sent[i].to = c /\ l.sent[i].type = etype})

\* The connection ids handed out so far
Issued == 1 .. (nextId - 1)

\* No handler is running and the last result has been read
IdleObs == Obs("idle", NoId, None, Absent, {}, NoEffects, 0, FALSE)
Idle == last = IdleObs

SetRegistry(m) ==
    /\ connections' = m.connections
    /\ user_connections' = m.user_connections
    /\ subscription_connections' = m.subscription_connections

SetAuth(a) ==
    /\ active_sessions' = a.active_sessions
    /\ user_sessions' = a.user_sessions
    /\ auth_attempts' = a.auth_attempts
    /\ local_buckets' = a.local_buckets

Init ==
    /\ connections = EmptyDict
    /\ user_connections = EmptyDict
    /\ subscription_connections = EmptyDict
    /\ nextId = 1
    /\ active_sessions = EmptyDict
    /\ user_sessions = EmptyDict
    /\ auth_attempts = <<>>
    /\ local_buckets = EmptyDict
    /\ now = 0
    /\ redis_store = EmptyDict
    /\ rate_calls = <<>>
    /\ event_handlers = EmptyDict
    /\ handlers = _setup_handlers(FALSE, FALSE)
    /\ events_processed = 0
    /\ events_failed = 0
    /\ warnings = {}
    /\ closing = EmptyDict
    /\ tasks = _start_background_tasks
    /\ broadcast = NoBroadcast
    /\ hung = {}
    /\ last = IdleObs

\* ---------------------------------------------------- registry actions

\* connect(websocket): a client is accepted under a fresh id
Connect ==
    /\ Idle
    /\ nextId <= MaxConns
    /\ \E bad \in SUBSET {nextId} :
         LET m == connect(Machine, nextId, bad)
         IN /\ SetRegistry(m)
            /\ last' = Obs("connect", nextId, None, Absent, {nextId}, m, 0, FALSE)
    /\ nextId' = nextId + 1
    /\ UNCHANGED <<asyncVars, authVars, now, rateVars, dispatchVars>>

\* disconnect(id): the read loop's finally, or any other caller
Disconnect(c) ==
    /\ Idle
    /\ LET m == disconnect(Machine, c, CloseNormal)
       IN /\ SetRegistry(m)
          /\ last' = Obs("disconnect", c, None, PreConn(c), {}, m, 0, FALSE)
    /\ UNCHANGED <<asyncVars, nextId, authVars, now, rateVars, dispatchVars>>

\* authenticate_connection(id, user)
AuthenticateConnection(c, u) ==
    /\ Idle
    /\ \E bad \in SUBSET ({c} \cap DOMAIN connections) :
         LET r == authenticate_connection(Machine, c, u, bad)
         IN /\ SetRegistry(r.m)
            /\ last' = Obs("authenticate_connection", c, u, PreConn(c), {c}, r.m, 0, r.raised)
    /\ UNCHANGED <<asyncVars, nextId, authVars, now, rateVars, dispatchVars>>

\* subscribe(id, tag)
Subscribe(c, tag) ==
    /\ Idle
    /\ \E bad \in SUBSET ({c} \cap DOMAIN connections) :
         LET r == subscribe(Machine, c, tag, bad)
         IN /\ SetRegistry(r.m)
            /\ last' = Obs("subscribe", c, tag, PreConn(c), {c}, r.m, 0, r.raised)
    /\ UNCHANGED <<asyncVars, nextId, authVars, now, rateVars, dispatchVars>>

\* unsubscribe(id, tag)
Unsubscribe(c, tag) ==
    /\ Idle
    /\ LET m == unsubscribe(Machine, c, tag)
       IN /\ SetRegistry(m)
          /\ last' = Obs("unsubscribe", c, tag, PreConn(c), {}, m, 0, FALSE)
    /\ UNCHANGED <<asyncVars, nextId, authVars, now, rateVars, dispatchVars>>

\* send_to_user(user, event)
SendToUser(u) ==
    /\ Idle
    /\ \E bad \in SUBSET (Get(user_connections, u, {}) \cap DOMAIN connections) :
         LET r == send_to_user(Machine, u, MESSAGE_RECEIVED, bad)
         IN /\ SetRegistry(r.m)
            /\ last' = Obs("send_to_user", NoId, u, Absent,
                           Get(user_connections, u, {}), r.m, r.ret, FALSE)
    /\ UNCHANGED <<asyncVars, nextId, authVars, now, rateVars, dispatchVars>>

\* broadcast_to_subscription(tag, event)
BroadcastToSubscription(tag) ==
    /\ Idle
    /\ \E bad \in SUBSET (Get(subscription_connections, tag, {}) \cap DOMAIN connections) :
         LET r == broadcast_to_subscription(Machine, tag, MESSAGE_RECEIVED, bad)
         IN /\ SetRegistry(r.m)
            /\ last' = Obs("broadcast_to_subscription", NoId, tag, Absent,
                           Get(subscription_connections, tag, {}), r.m, r.ret, FALSE)
    /\ UNCHANGED <<asyncVars, nextId, authVars, now, rateVars, dispatchVars>>

\* broadcast_to_all(event)
BroadcastToAll ==
    /\ Idle
    /\ \E bad \in SUBSET (DOMAIN connections) :
         LET r == broadcast_to_all(Machine, MESSAGE_RECEIVED, bad)
         IN /\ SetRegistry(r.m)
            /\ last' = Obs("broadcast_to_all", NoId, None, Absent,
                           DOMAIN connections, r.m, r.ret, FALSE)
    /\ UNCHANGED <<asyncVars, nextId, authVars, now, rateVars, dispatchVars>>

\* An authenticate frame from a live connection (_handle_message ->
\* _process_event -> _handle_authenticate)
HandleAuthenticate(c, token) ==
    /\ Idle
    /\ c \in DOMAIN connections
    /\ \E bad \in SUBSET {c} :
         LET r == _handle_authenticate(Machine, Auth, c, token, bad, now)
         IN /\ SetRegistry(r.m)
            /\ SetAuth(r.a)
            /\ last' = Obs("handle_authenticate", c, token, PreConn(c), {c}, r.m, 0, FALSE)
    /\ UNCHANGED <<asyncVars, nextId, now, rateVars, dispatchVars>>

\* The caller takes the handler's result; the next handler may run
Return ==
    /\ ~Idle
    /\ last' = IdleObs
    /\ UNCHANGED <<asyncVars, regVars, authVars, now, rateVars, dispatchVars>>

\* In-band subscribe and unsubscribe frames from a live connection
HandleSubscribe(c, subscription_type) ==
    /\ Idle
    /\ c \in DOMAIN connections
    /\ \E bad \in SUBSET {c} :
         LET m == _handle_subscribe(Machine, c, subscription_type, bad)
         IN /\ SetRegistry(m)
            /\ last' = Obs("handle_subscribe", c, subscription_type, PreConn(c), {c}, m, 0, FALSE)
                       @@ [pre_subscription_connections |-> subscription_connections]
    /\ UNCHANGED <<asyncVars, nextId, authVars, now, rateVars, dispatchVars>>

HandleUnsubscribe(c, subscription_type) ==
    /\ Idle
    /\ c \in DOMAIN connections
    /\ LET m == _handle_unsubscribe(Machine, c, subscription_type)
       IN /\ SetRegistry(m)
          /\ last' = Obs("handle_unsubscribe", c, subscription_type, PreConn(c), {}, m, 0, FALSE)
                     @@ [pre_subscription_connections |-> subscription_connections]
    /\ UNCHANGED <<asyncVars, nextId, authVars, now, rateVars, dispatchVars>>

\* The registry with users and one tag, and the in-band authentication of
\* its connections
Next ==
    \/ Connect
    \/ \E c \in Issued : Disconnect(c)
    \/ \E c \in Issued, u \in Users : AuthenticateConnection(c, u)
    \/ \E c \in Issued, tag \in OneTag : Subscribe(c, tag)
    \/ \E c \in Issued, tag \in OneTag : Unsubscribe(c, tag)
    \/ \E u \in Users : SendToUser(u)
    \/ \E tag \in OneTag : BroadcastToSubscription(tag)
    \/ BroadcastToAll
    \/ \E c \in Issued, token \in JwtTokens \cup {"invalid_token", ""} : HandleAuthenticate(c, token)
    \/ Return

Spec == Init /\ [][Next]_vars

\* The registry with anonymous connections and two tags
NextSubs ==
    \/ Connect
    \/ \E c \in Issued : Disconnect(c)
    \/ \E c \in Issued, tag \in Tags : Subscribe(c, tag)
    \/ \E c \in Issued, tag \in Tags : Unsubscribe(c, tag)
    \/ \E tag \in Tags : BroadcastToSubscription(tag)
    \/ BroadcastToAll
    \/ Return

SpecSubs == Init /\ [][NextSubs]_vars

\* ------------------------------------------------- authenticator actions

\* authenticate(token, connection_id)
Authenticate(token, c) ==
    /\ Idle
    /\ Len(auth_attempts) < MaxAudit
    /\ LET r == authenticate(Auth, token, c, now)
       IN /\ SetAuth(r.a)
          /\ last' = Obs("authenticate", c, token, PreSession(c), {}, NoEffects, 0, r.raised)
    /\ UNCHANGED <<asyncVars, regVars, now, rateVars, dispatchVars>>

\* authenticate_api_key(api_key, connection_id)
AuthenticateApiKey(api_key, c) ==
    /\ Idle
    /\ LET r == authenticate_api_key(Auth, api_key, c, now)
       IN /\ SetAuth(r.a)
          /\ last' = Obs("authenticate_api_key", c, api_key, PreSession(c), {}, NoEffects,
                         0, r.raised)
    /\ UNCHANGED <<asyncVars, regVars, now, rateVars, dispatchVars>>

\* remove_session(connection_id)
RemoveSession(c) ==
    /\ Idle
    /\ SetAuth(remove_session(Auth, c))
    /\ last' = Obs("remove_session", c, None, PreSession(c), {}, NoEffects, 0, FALSE)
    /\ UNCHANGED <<asyncVars, regVars, now, rateVars, dispatchVars>>

\* revoke_user_sessions(user_id)
RevokeUserSessions(u) ==
    /\ Idle
    /\ LET r == revoke_user_sessions(Auth, u)
       IN /\ SetAuth(r.a)
          /\ last' = Obs("revoke_user_sessions", NoId, u, Absent,
                         Get(user_sessions, u, {}), NoEffects, r.ret, FALSE)
    /\ UNCHANGED <<asyncVars, regVars, now, rateVars, dispatchVars>>

\* cleanup_expired_sessions(max_idle_time)
CleanupExpiredSessions(max_idle_time) ==
    /\ Idle
    /\ SetAuth(cleanup_expired_sessions(Auth, max_idle_time, now))
    /\ last' = Obs("cleanup_expired_sessions", NoId, None, Absent,
                   DOMAIN active_sessions, NoEffects, max_idle_time, FALSE)
               @@ [pre_sessions |-> active_sessions, pre_user_sessions |-> user_sessions]
    /\ UNCHANGED <<asyncVars, regVars, now, rateVars, dispatchVars>>

\* Time passes
Tick ==
    /\ Idle
    /\ now < MaxTime
    /\ now' = now + 1
    /\ UNCHANGED <<asyncVars, regVars, authVars, last, rateVars, dispatchVars>>

\* The authenticator on its own
NextAuth ==
    \/ \E token \in Credentials, c \in SessionIds : Authenticate(token, c)
    \/ \E api_key \in Credentials, c \in SessionIds : AuthenticateApiKey(api_key, c)
    \/ \E c \in SessionIds : RemoveSession(c)
    \/ \E u \in Users : RevokeUserSessions(u)
    \/ \E max_idle_time \in 0 .. MaxTime : CleanupExpiredSessions(max_idle_time)
    \/ Tick
    \/ Return

SpecAuth == Init /\ [][NextAuth]_vars

\* ----------------------------------------------------- heartbeat actions

\* connect(websocket) in SpecHeartbeat
ConnectBeat ==
    /\ nextId <= MaxBeatConns
    /\ Connect

\* A ping frame from a live connection (_process_event -> handle_ping).
\* timestamp is what the frame's data carries (NoTime: no timestamp entry);
\* _process_event hands handle_ping the connection id only.
HandlePing(c, timestamp) ==
    /\ Idle
    /\ c \in DOMAIN connections
    /\ \E bad \in SUBSET {c} :
         LET m == handle_ping(Machine, c, now, bad)
         IN /\ SetRegistry(m)
            /\ last' = Obs("handle_ping", c, None, PreConn(c), {c}, m, timestamp, FALSE)
    /\ UNCHANGED <<asyncVars, nextId, authVars, now, rateVars, dispatchVars>>

\* A pong frame from a live connection (_process_event -> handle_pong)
HandlePong(c) ==
    /\ Idle
    /\ c \in DOMAIN connections
    /\ LET m == handle_pong(Machine, c, now)
       IN /\ SetRegistry(m)
          /\ last' = Obs("handle_pong", c, None, PreConn(c), {}, m, 0, FALSE)
    /\ UNCHANGED <<asyncVars, nextId, authVars, now, rateVars, dispatchVars>>

\* The connections that have shown no pong for longer than the threshold:
\* since their last pong, or since they connected when they never sent one
Overdue(t) ==
    {c \in DOMAIN connections :
        LET since == IF connections[c].last_pong # NoTime
                     THEN connections[c].last_pong ELSE connections[c].connected_at
        IN t - since > PongTimeout}

\* What a client may put in a ping's data: nothing, or its own clock's
\* reading, which runs ahead of the server's by ClientSkew
PingTimestamps == {NoTime, now + ClientSkew}

\* One iteration of _heartbeat_loop once its sleep is over
SendHeartbeat ==
    /\ Idle
    /\ \E badPing \in SUBSET DOMAIN connections :
       \E badSend \in SUBSET DOMAIN connections :
         LET r == _send_heartbeat(Machine, now, badPing, badSend)
         IN /\ SetRegistry(r.m)
            /\ last' = Obs("_send_heartbeat", NoId, None, Absent, Overdue(now),
                           r.m, 0, r.raised)
                       @@ [pre_connections |-> DOMAIN connections, badPing |-> badPing,
                           badSend |-> badSend]
    /\ UNCHANGED <<asyncVars, nextId, authVars, now, rateVars, dispatchVars>>

\* _heartbeat_loop: await asyncio.sleep(30)
Sleep ==
    /\ Idle
    /\ now + HeartbeatInterval <= MaxBeats * HeartbeatInterval
    /\ now' = now + HeartbeatInterval
    /\ UNCHANGED <<asyncVars, regVars, authVars, last, rateVars, dispatchVars>>

\* The registry under its heartbeat
NextHeartbeat ==
    \/ ConnectBeat
    \/ \E c \in Issued, timestamp \in PingTimestamps : HandlePing(c, timestamp)
    \/ \E c \in Issued : HandlePong(c)
    \/ \E c \in Issued : Disconnect(c)
    \/ SendHeartbeat
    \/ Sleep
    \/ Return

SpecHeartbeat == Init /\ [][NextHeartbeat]_vars

\* -------------------------------------------------- rate limiter actions

\* The same is_allowed(user_id, "message", limit, window) call made on a
\* limiter with the local backend and on one with the shared cache
IsAllowed(user_id, outcome) ==
    /\ Idle
    \* datetime.now() has moved on since the previous call
    /\ rate_calls # <<>> => rate_calls[Len(rate_calls)].t < now
    /\ LET key == RateKey(user_id, "message")
           l == is_allowed(local_buckets, user_id, "message", RateLimit, RateWindow, now)
           r == is_allowed_redis(redis_store, user_id, "message", RateLimit, RateWindow,
                                 now, outcome)
       IN /\ local_buckets' = l.b
          /\ redis_store' = r.z
          /\ rate_calls' = Append(rate_calls,
                                  [key |-> key, t |-> now, outcome |-> outcome,
                                   local |-> l.ret, redis |-> r.ret])
          /\ last' = Obs("is_allowed", NoId, outcome, Absent, {}, NoEffects,
                         IF r.ret THEN 1 ELSE 0, FALSE)
    /\ UNCHANGED <<asyncVars, regVars, active_sessions, user_sessions, auth_attempts, now, dispatchVars>>

\* Time passes between two calls
RateTick ==
    /\ Idle
    /\ now < MaxRateTime
    /\ now' = now + 1
    /\ UNCHANGED <<asyncVars, regVars, authVars, rateVars, dispatchVars, last>>

\* The rate limiter on its own, both backends side by side
NextRate ==
    \/ \E user_id \in Users, outcome \in RedisOutcomes : IsAllowed(user_id, outcome)
    \/ RateTick
    \/ Return

SpecRate == Init /\ [][NextRate]_vars

\* ------------------------------------------------------ endpoint actions

\* A client opens /ws and presents its credential
EndpointAccept(credentials) ==
    /\ Idle
    /\ nextId <= MaxConns
    /\ \E bad2 \in SUBSET {nextId} : \E bad1 \in SUBSET bad2 :
         LET r == websocket_endpoint(Machine, Auth, nextId, credentials, bad1, bad2, now)
         IN /\ SetRegistry(r.m)
            /\ SetAuth(r.a)
            /\ last' = Obs("websocket_endpoint", nextId, credentials, Absent, {nextId},
                           r.m, 0, r.raised)
    /\ nextId' = nextId + 1
    /\ UNCHANGED <<asyncVars, now, rateVars, dispatchVars>>

\* The /ws endpoint: accept with a credential, in-band frames, the read
\* loop's final disconnect, and forced logout
NextEndpoint ==
    \/ \E credentials \in Credentials : EndpointAccept(credentials)
    \/ \E c \in Issued, token \in JwtTokens \cup {"invalid_token", ""} : HandleAuthenticate(c, token)
    \/ \E c \in Issued, tag \in OneTag \cup {"", "invalid_subscription"} : HandleSubscribe(c, tag)
    \/ \E c \in Issued, tag \in OneTag \cup {"", "invalid_subscription"} : HandleUnsubscribe(c, tag)
    \/ \E c \in Issued : Disconnect(c)
    \/ \E u \in Users : RevokeUserSessions(u)
    \/ Return

SpecEndpoint == Init /\ [][NextEndpoint]_vars

\* ---------------------------------------------------------- WebSocketEvent

\* class EventType(str, Enum): every member with its wire value
EventTypeMembers ==
    {
     [name |-> "CONNECTION_ESTABLISHED", value |-> "connection_established"],
     [name |-> "CONNECTION_LOST", value |-> "connection_lost"],
     [name |-> "PING", value |-> "ping"], [name |-> "PONG", value |-> "pong"],
     [name |-> "AUTHENTICATE", value |-> "authenticate"],
     [name |-> "AUTHENTICATION_SUCCESS", value |-> "authentication_success"],
     [name |-> "AUTHENTICATION_FAILED", value |-> "authentication_failed"],
     [name |-> "TOKEN_EXPIRED", value |-> "token_expired"],
     [name |-> "SUBSCRIBE", value |-> "subscribe"],
     [name |-> "UNSUBSCRIBE", value |-> "unsubscribe"],
     [name |-> "SUBSCRIPTION_CONFIRMED", value |-> "subscription_confirmed"],
     [name |-> "SUBSCRIPTION_FAILED", value |-> "subscription_failed"],
     [name |-> "INSTANCE_STATUS_CHANGED", value |-> "instance_status_changed"],
     [name |-> "INSTANCE_CREATED", value |-> "instance_created"],
     [name |-> "INSTANCE_DELETED", value |-> "instance_deleted"],
     [name |-> "INSTANCE_CONNECTED", value |-> "instance_connected"],
     [name |-> "INSTANCE_DISCONNECTED", value |-> "instance_disconnected"],
     [name |-> "QR_CODE_GENERATED", value |-> "qr_code_generated"],
     [name |-> "MESSAGE_RECEIVED", value |-> "message_received"],
     [name |-> "MESSAGE_SENT", value |-> "message_sent"],
     [name |-> "MESSAGE_DELIVERED", value |-> "message_delivered"],
     [name |-> "MESSAGE_READ", value |-> "message_read"],
     [name |-> "MESSAGE_FAILED", value |-> "message_failed"],
     [name |-> "AGENT_CREATED", value |-> "agent_created"],
     [name |-> "AGENT_UPDATED", value |-> "agent_updated"],
     [name |-> "AGENT_DELETED", value |-> "agent_deleted"],
     [name |-> "AGENT_MATERIALIZED", value |-> "agent_materialized"],
     [name |-> "AGENT_RESPONSE", value |-> "agent_response"],
     [name |-> "AGENT_ERROR", value |-> "agent_error"],
     [name |-> "SYSTEM_STATUS", value |-> "system_status"],
     [name |-> "SYSTEM_ERROR", value |-> "system_error"],
     [name |-> "SYSTEM_MAINTENANCE", value |-> "system_maintenance"],
     [name |-> "RATE_LIMIT_EXCEEDED", value |-> "rate_limit_exceeded"],
     [name |-> "USER_ACTIVITY", value |-> "user_activity"],
     [name |-> "USER_LOGGED_IN", value |-> "user_logged_in"],
     [name |-> "USER_LOGGED_OUT", value |-> "user_logged_out"],
     [name |-> "PERFORMANCE_METRICS", value |-> "performance_metrics"],
     [name |-> "HEALTH_CHECK", value |-> "health_check"],
     [name |-> "LOG_ENTRY", value |-> "log_entry"]
    }

\* EventType(value): the member with that value; ValueError when there is none
NoMember == [name |-> "ValueError", value |-> "ValueError"]
EventTypeOf(value) ==
    IF \E member \in EventTypeMembers : member.value = value
    THEN CHOOSE member \in EventTypeMembers : member.value = value
    ELSE NoMember

\* class EventPriority(str, Enum)
EventPriorityMembers ==
    {[name |-> "LOW", value |-> "low"], [name |-> "NORMAL", value |-> "normal"],
     [name |-> "HIGH", value |-> "high"], [name |-> "CRITICAL", value |-> "critical"]}

\* EventPriority(value)
EventPriorityOf(value) ==
    IF \E member \in EventPriorityMembers : member.value = value
    THEN CHOOSE member \in EventPriorityMembers : member.value = value
    ELSE NoMember

\* EVENT_CATEGORIES, by member name
EVENT_CATEGORIES ==
    [
     CONNECTION_ESTABLISHED |-> "connection", CONNECTION_LOST |-> "connection",
     PING |-> "connection", PONG |-> "connection", AUTHENTICATE |-> "authentication",
     AUTHENTICATION_SUCCESS |-> "authentication",
     AUTHENTICATION_FAILED |-> "authentication", TOKEN_EXPIRED |-> "authentication",
     SUBSCRIBE |-> "subscription", UNSUBSCRIBE |-> "subscription",
     SUBSCRIPTION_CONFIRMED |-> "subscription", SUBSCRIPTION_FAILED |-> "subscription",
     INSTANCE_STATUS_CHANGED |-> "whatsapp", INSTANCE_CREATED |-> "whatsapp",
     INSTANCE_DELETED |-> "whatsapp", INSTANCE_CONNECTED |-> "whatsapp",
     INSTANCE_DISCONNECTED |-> "whatsapp", QR_CODE_GENERATED |-> "whatsapp",
     MESSAGE_RECEIVED |-> "whatsapp", MESSAGE_SENT |-> "whatsapp",
     MESSAGE_DELIVERED |-> "whatsapp", MESSAGE_READ |-> "whatsapp",
     MESSAGE_FAILED |-> "whatsapp", AGENT_CREATED |-> "agent",
     AGENT_UPDATED |-> "agent", AGENT_DELETED |-> "agent",
     AGENT_MATERIALIZED |-> "agent", AGENT_RESPONSE |-> "agent",
     AGENT_ERROR |-> "agent", SYSTEM_STATUS |-> "system", SYSTEM_ERROR |-> "system",
     SYSTEM_MAINTENANCE |-> "system", RATE_LIMIT_EXCEEDED |-> "system",
     USER_ACTIVITY |-> "user", USER_LOGGED_IN |-> "user", USER_LOGGED_OUT |-> "user",
     PERFORMANCE_METRICS |-> "monitoring", HEALTH_CHECK |-> "monitoring",
     LOG_ENTRY |-> "monitoring"
    ]

\* WebSocketEvent.category
category(event) ==
    IF event.type.name \in DOMAIN EVENT_CATEGORIES
    THEN EVENT_CATEGORIES[event.type.name] ELSE "system"

\* A datetime is [second, microsecond, utcoffset]: whole seconds since some
\* origin, the microsecond field, and the offset of its tzinfo in minutes
\* (NoOffset for a naive datetime).
NoOffset == 100000

\* The six digits isoformat() writes after the point
MicrosecondDigits(microsecond) ==
    [i \in 1 .. 6 |-> (microsecond \div (10 ^ (6 - i))) % 10]

\* isoformat that never writes the microsecond
isoformat_seconds_only(dt) ==
    [seconds |-> dt.second,
     fraction |-> <<>>,
     offset |-> IF dt.utcoffset = NoOffset THEN <<>>
                ELSE LET a == IF dt.utcoffset < 0 THEN 0 - dt.utcoffset ELSE dt.utcoffset
                     IN <<IF dt.utcoffset < 0 THEN "-" ELSE "+", a \div 60, a % 60>>]

\* datetime.isoformat(): the seconds part, ".ffffff" only when the
\* microsecond is not 0, and "+HH:MM" / "-HH:MM" only when tz-aware
isoformat(dt) ==
    [seconds |-> dt.second,
     fraction |-> IF dt.microsecond = 0 THEN <<>> ELSE MicrosecondDigits(dt.microsecond),
     offset |-> IF dt.utcoffset = NoOffset THEN <<>>
                ELSE LET a == IF dt.utcoffset < 0 THEN 0 - dt.utcoffset ELSE dt.utcoffset
                     IN <<IF dt.utcoffset < 0 THEN "-" ELSE "+", a \div 60, a % 60>>]

\* str.replace('Z', '+00:00') on an ISO-8601 text
ReplaceZ(text) ==
    IF text.offset = <<"Z">> THEN [text EXCEPT !.offset = <<"+", 0, 0>>] ELSE text

\* datetime.fromisoformat()
fromisoformat(text) ==
    [second |-> text.seconds,
     microsecond |-> IF text.fraction = <<>> THEN 0
                     ELSE text.fraction[1] * 100000 + text.fraction[2] * 10000
                          + text.fraction[3] * 1000 + text.fraction[4] * 100
                          + text.fraction[5] * 10 + text.fraction[6],
     utcoffset |-> IF text.offset = <<>> THEN NoOffset
                   ELSE (IF text.offset[1] = "-" THEN 0 - 1 ELSE 1)
                        * (text.offset[2] * 60 + text.offset[3])]

\* WebSocketEvent.to_dict
to_dict(event) ==
    [type |-> event.type.value,
     data |-> event.data,
     timestamp |-> isoformat(event.timestamp),
     connection_id |-> event.connection_id,
     user_id |-> event.user_id,
     priority |-> event.priority.value,
     category |-> category(event),
     metadata |-> event.metadata]

\* WebSocketEvent.from_dict: [raised, event]
from_dict(data) ==
    LET type == EventTypeOf(data.type)
        priority == EventPriorityOf(data.priority)
    IN IF type = NoMember \/ priority = NoMember
       THEN [raised |-> TRUE, event |-> None]
       ELSE [raised |-> FALSE,
             event |-> [type |-> type,
                        data |-> data.data,
                        timestamp |-> fromisoformat(ReplaceZ(data.timestamp)),
                        connection_id |-> data.connection_id,
                        user_id |-> data.user_id,
                        priority |-> priority,
                        metadata |-> data.metadata]]

\* Events to encode: every type and priority, naive and tz-aware timestamps
\* with and without microseconds, empty and nested payloads
Datetimes ==
    [second : 0 .. MaxTime, microsecond : {0, 1, 120000, 999999},
     utcoffset : {NoOffset, 0, 330, 0 - 90}]
Payloads == {EmptyDict, [token |-> "jwt_u1"], [message |-> [id |-> 1, tags |-> <<"a", "b">>]]}
Events ==
    [type : EventTypeMembers, data : Payloads, timestamp : Datetimes,
     connection_id : {NoId, 1}, user_id : {None, "u1"},
     priority : EventPriorityMembers, metadata : {EmptyDict, [source |-> "api"]}]

\* An event is encoded to its envelope and decoded again
RoundTrip(event) ==
    /\ Idle
    /\ last' = Obs("round_trip", NoId, None, Absent, {}, NoEffects, 0,
                   from_dict(to_dict(event)).raised)
               @@ [event |-> event, decoded |-> from_dict(to_dict(event)).event]
    /\ UNCHANGED <<asyncVars, regVars, authVars, now, rateVars, dispatchVars>>

\* Encoding and decoding of events
NextEvents ==
    \/ Idle /\ \E event \in Events : RoundTrip(event)
    \/ Return

SpecEvents == Init /\ [][NextEvents]_vars

\* ------------------------------------------------------- inbound frames

\* A text frame as json.loads sees it: json (it parses), mapping (the value
\* is an object), type (its 'type' entry, None when absent), data_mapping
\* (its 'data' entry is an object or absent) and data (that object).
NotJson ==
    [json |-> FALSE, mapping |-> FALSE, type |-> None, data_mapping |-> FALSE,
     data |-> EmptyDict]
NotMapping == [NotJson EXCEPT !.json = TRUE]
Frame(type, data) ==
    [json |-> TRUE, mapping |-> TRUE, type |-> type, data_mapping |-> TRUE,
     data |-> data]
ScalarData(type) == [Frame(type, EmptyDict) EXCEPT !.data_mapping = FALSE]

\* event.data.get(key), "" standing for an absent entry
Field(data, key) == IF key \in DOMAIN data THEN data[key] ELSE ""

\* The custom handlers of one type are called in order, each in its own
\* try: the indices called and the errors logged.  raising holds the
\* indices of the handlers that raise on this event.
RECURSIVE CallEach(_, _, _)
CallEach(handler_list, i, raising) ==
    IF i > Len(handler_list) THEN [ran |-> <<>>, errors |-> 0]
    ELSE LET rest == CallEach(handler_list, i + 1, raising)
         IN [ran |-> <<i>> \o rest.ran,
             errors |-> rest.errors + (IF i \in raising THEN 1 ELSE 0)]

\* What _process_event leaves when no exception left it: the control
\* handler's registry and sessions, and the custom handlers' run
Dispatched(control, custom) ==
    [m |-> control.m, a |-> control.a, ran |-> custom.ran, errors |-> custom.errors,
     raised |-> FALSE]

\* WebSocketManager._process_event: [m, a, ran, errors, raised].  The
\* control handlers run outside any try: the AttributeError of
\* event.data.get on a 'data' entry that is no object leaves
\* _process_event before the custom handlers are reached.
_process_event(M, A, EH, event, raising, bad, t) ==
    LET cid == event.connection_id
    IN IF event.type \in {"authenticate", "subscribe", "unsubscribe"} /\ ~event.data_mapping
       THEN [m |-> M, a |-> A, ran |-> <<>>, errors |-> 0, raised |-> TRUE]
       ELSE Dispatched(
              IF event.type = "authenticate"
              THEN _handle_authenticate(M, A, cid, Field(event.data, "token"), bad, t)
              ELSE [a |-> A,
                    m |-> IF event.type = "subscribe"
                          THEN _handle_subscribe(M, cid, Field(event.data, "subscription_type"), bad)
                          ELSE IF event.type = "unsubscribe"
                          THEN _handle_unsubscribe(M, cid, Field(event.data, "subscription_type"))
                          ELSE IF event.type = PING THEN handle_ping(M, cid, t, bad)
                          ELSE IF event.type = PONG THEN handle_pong(M, cid, t)
                          ELSE M],
              CallEach(Get(EH, event.type, <<>>), 1, raising))

\* The event _handle_message builds from a decoded frame
EventOf(frame, connection_id) ==
    [type |-> frame.type, data |-> frame.data, data_mapping |-> frame.data_mapping,
     connection_id |-> connection_id]

\* _handle_message after _process_event: an exception that left it is
\* caught and logged by the last except clause
Caught(r) ==
    [m |-> r.m, a |-> r.a, ran |-> r.ran, errors |-> r.errors,
     logged |-> IF r.raised THEN "Exception" ELSE "none", raised |-> FALSE]

\* _handle_message that closes the connection on a frame it cannot decode
_handle_message_closes(M, A, EH, connection_id, frame, raising, bad, t) ==
    LET closed == [m |-> disconnect(M, connection_id, ClosePolicy), a |-> A,
                   ran |-> <<>>, errors |-> 0, logged |-> "closed", raised |-> FALSE]
    IN IF ~frame.json THEN closed
       ELSE IF ~frame.mapping THEN closed
       ELSE IF EventTypeOf(frame.type) = NoMember THEN closed
       ELSE Caught(_process_event(M, A, EH, EventOf(frame, connection_id), raising, bad, t))

\* WebSocketManager._handle_message: [m, a, ran, errors, logged, raised].
\* logged names the except clause that caught the frame.
_handle_message(M, A, EH, connection_id, frame, raising, bad, t) ==
    LET dropped(clause) == [m |-> M, a |-> A, ran |-> <<>>, errors |-> 0,
                            logged |-> clause, raised |-> FALSE]
    IN IF ~frame.json THEN dropped("JSONDecodeError")
       ELSE IF ~frame.mapping THEN dropped("Exception")
       ELSE IF EventTypeOf(frame.type) = NoMember THEN dropped("ValueError")
       ELSE Caught(_process_event(M, A, EH, EventOf(frame, connection_id), raising, bad, t))

\* The frames the modelled clients send
InvalidFrames ==
    {NotJson, NotMapping, Frame(None, EmptyDict), Frame("INVALID_EVENT_TYPE", EmptyDict),
     Frame("PING", EmptyDict)}
ValidFrames ==
    {Frame("subscribe", [subscription_type |-> "messages"]),
     Frame("unsubscribe", [subscription_type |-> "messages"]),
     Frame("subscribe", [subscription_type |-> "no_such_tag"]),
     Frame("authenticate", [token |-> "invalid_token"]),
     Frame("authenticate", EmptyDict),
     ScalarData("subscribe"),
     Frame(PING, EmptyDict), Frame(PONG, EmptyDict),
     Frame(MESSAGE_RECEIVED, [text |-> "hi"])}
Frames == InvalidFrames \cup ValidFrames

\* What one turn of the read loop leaves: an exception leaving
\* _handle_message would end the loop and run the finally's disconnect.
LoopTurn(c, frame, raising, r) ==
    /\ SetRegistry(IF r.raised THEN disconnect(r.m, c, CloseNormal) ELSE r.m)
    /\ SetAuth(r.a)
    /\ warnings' = IF r.logged = "none" THEN warnings ELSE warnings \cup {c}
    /\ last' = Obs("handle_message", c, r.logged, PreConn(c), {c},
                   IF r.raised THEN disconnect(r.m, c, CloseNormal) ELSE r.m, 0, r.raised)
               @@ [frame |-> frame, handler_list |-> Get(event_handlers, frame.type, <<>>),
                   raising |-> raising, ran |-> r.ran, errors |-> r.errors,
                   counted |-> 0, pre_session |-> PreSession(c)]

\* One turn of handle_websocket's read loop: a frame is received from a
\* live connection and handled
HandleMessage(c, frame, raising) ==
    /\ Idle
    /\ c \in DOMAIN connections
    /\ \E bad \in SUBSET {c} :
         LoopTurn(c, frame, raising,
                  _handle_message(Machine, Auth, event_handlers, c, frame, raising, bad, now))
    /\ UNCHANGED <<asyncVars, nextId, now, rateVars, event_handlers, handlers, events_processed,
                   events_failed>>

\* The read loops of a few connections
NextFrames ==
    \/ ConnectBeat
    \/ \E c \in Issued : Disconnect(c)
    \/ Idle /\ \E c \in Issued, frame \in Frames : HandleMessage(c, frame, {})
    \/ Return

SpecFrames == Init /\ [][NextFrames]_vars

\* ------------------------------------------------------ event dispatching

\* WebSocketManager.add_event_handler
add_event_handler(EH, event_type, handler) ==
    Put(EH, event_type, Append(Get(EH, event_type, <<>>), handler))

\* How many callables event_handlers holds
RECURSIVE Registered(_, _)
Registered(EH, types) ==
    IF types = {} THEN 0
    ELSE LET event_type == CHOOSE x \in types : TRUE
         IN Len(EH[event_type]) + Registered(EH, types \ {event_type})

\* The types the embedding application registers handlers for
HandledTypes == {PING, MESSAGE_RECEIVED}

AddEventHandler(event_type) ==
    /\ Idle
    /\ Registered(event_handlers, DOMAIN event_handlers) < MaxHandlers
    /\ event_handlers' = add_event_handler(event_handlers, event_type, "callback")
    /\ UNCHANGED <<asyncVars, regVars, authVars, now, rateVars, handlers, events_processed,
                   events_failed, warnings, last>>

SetDispatcher(h) ==
    /\ handlers' = h.handlers
    /\ events_processed' = h.events_processed
    /\ events_failed' = h.events_failed

AddHandler(event_type) ==
    /\ Idle
    /\ event_type \notin DOMAIN handlers
    /\ SetDispatcher(add_handler(Dispatcher, event_type, "CustomHandler"))
    /\ UNCHANGED <<asyncVars, regVars, authVars, now, rateVars, event_handlers, warnings, last>>

RemoveHandler(event_type) ==
    /\ Idle
    /\ event_type \in DOMAIN handlers
    /\ SetDispatcher(remove_handler(Dispatcher, event_type))
    /\ UNCHANGED <<asyncVars, regVars, authVars, now, rateVars, event_handlers, warnings, last>>

\* process_event(event) for an event of the given type
ProcessEvent(event_type) ==
    /\ Idle
    /\ events_processed + events_failed < MaxEvents
    /\ \E outcome \in HandleOutcomes(Get(handlers, event_type, "SystemEventHandler")) :
         LET r == process_event(Dispatcher, event_type, outcome)
         IN /\ SetDispatcher(r.h)
            /\ last' = Obs("process_event", NoId, outcome, Absent, {}, NoEffects,
                           IF r.ret THEN 1 ELSE 0, r.raised)
                       @@ [frame |-> Frame(event_type, EmptyDict), handler_list |-> <<>>,
                           raising |-> {}, ran |-> <<>>, errors |-> 0,
                           counted |-> r.h.events_failed - events_failed,
                           pre_session |-> Absent,
                           pre_events_processed |-> events_processed,
                           pre_events_failed |-> events_failed]
    /\ UNCHANGED <<asyncVars, regVars, authVars, now, rateVars, event_handlers, warnings>>

\* A frame whose type has custom handlers, some of which raise
HandleMessageCustom(c, frame) ==
    /\ Idle
    /\ \E raising \in SUBSET (1 .. Len(Get(event_handlers, frame.type, <<>>))) :
         HandleMessage(c, frame, raising)

\* Both dispatchers: the manager's read loop with its custom handlers and
\* the handler table
NextDispatch ==
    \/ ConnectBeat
    \/ \E event_type \in HandledTypes : AddEventHandler(event_type)
    \/ \E c \in Issued, frame \in {Frame(PING, EmptyDict), Frame(MESSAGE_RECEIVED, [text |-> "hi"])} :
         HandleMessageCustom(c, frame)
    \/ \E event_type \in {MESSAGE_RECEIVED} : AddHandler(event_type)
    \/ \E event_type \in {MESSAGE_RECEIVED} : RemoveHandler(event_type)
    \/ \E event_type \in {MESSAGE_RECEIVED, "system_status"} : ProcessEvent(event_type)
    \/ Return

SpecDispatch == Init /\ [][NextDispatch]_vars

\* ------------------------------------------------------- authentication audit

\* What authenticate and authenticate_api_key leave for the observer: the
\* audit log and the sessions as the call found them, and the user returned
AuthObs(op, c, credential, r) ==
    Obs(op, c, credential, PreSession(c), {}, NoEffects, 0, r.raised)
    @@ [user |-> r.user, pre_attempts |-> auth_attempts,
        pre_sessions |-> active_sessions, pre_user_sessions |-> user_sessions,
        pre_buckets |-> local_buckets]

\* authenticate(token, connection_id), called often enough to exhaust the
\* authentication limit of a user
AuthenticateAudited(token, c) ==
    /\ Idle
    /\ Len(auth_attempts) < MaxAttempts
    /\ SetAuth(authenticate(Auth, token, c, now).a)
    /\ last' = AuthObs("authenticate", c, token, authenticate(Auth, token, c, now))
    /\ UNCHANGED <<asyncVars, regVars, now, rateVars, dispatchVars>>

\* authenticate_api_key(api_key, connection_id)
AuthenticateApiKeyAudited(api_key, c) ==
    /\ Idle
    /\ Len(auth_attempts) < MaxAttempts
    /\ SetAuth(authenticate_api_key(Auth, api_key, c, now).a)
    /\ last' = AuthObs("authenticate_api_key", c, api_key,
                       authenticate_api_key(Auth, api_key, c, now))
    /\ UNCHANGED <<asyncVars, regVars, now, rateVars, dispatchVars>>

\* One client authenticating over and over, by token and by API key
NextAudit ==
    \/ \E token \in {"jwt_u1", "invalid_token"} : AuthenticateAudited(token, 1)
    \/ \E api_key \in {"key_u1", "invalid_token"} : AuthenticateApiKeyAudited(api_key, 1)
    \/ Tick
    \/ Return

SpecAudit == Init /\ [][NextAudit]_vars

\* ------------------------------------------------------- session queries

\* What a session query leaves for the observer: the sessions and the
\* buckets as the call found them, and the action asked about
SessionObs(op, c, arg, action, ret) ==
    Obs(op, c, arg, PreSession(c), {}, NoEffects, IF ret THEN 1 ELSE 0, FALSE)
    @@ [action |-> action, pre_sessions |-> active_sessions, pre_buckets |-> local_buckets]

\* The permissions callers ask about
Permissions == {"read", "view_logs", "delete", "admin", "billing"}

\* verify_permission(connection_id, permission)
VerifyPermission(c, permission) ==
    /\ Idle
    /\ SetAuth(verify_permission(Auth, c, permission, now).a)
    /\ last' = SessionObs("verify_permission", c, permission, None,
                          verify_permission(Auth, c, permission, now).ret)
    /\ UNCHANGED <<asyncVars, regVars, now, rateVars, dispatchVars>>

\* The actions callers meter
Actions == {"message", "subscribe"}

\* check_rate_limit(connection_id, action, limit, window); one call more
\* than the limit is enough to see a refusal
CheckRateLimit(c, action) ==
    /\ Idle
    /\ Len(rate_calls) <= RateLimit
    /\ SetAuth(check_rate_limit(Auth, c, action, RateLimit, RateWindow, now).a)
    /\ rate_calls' = Append(rate_calls,
           [connection_id |-> c, action |-> action, t |-> now,
            ret |-> check_rate_limit(Auth, c, action, RateLimit, RateWindow, now).ret])
    /\ last' = SessionObs("check_rate_limit", c, None, action,
                          check_rate_limit(Auth, c, action, RateLimit, RateWindow, now).ret)
    /\ UNCHANGED <<asyncVars, regVars, now, redis_store, dispatchVars>>

\* Sessions opened by API key, queried and metered, all within one instant
\* (neither query looks at the time beyond the limiter's window)
NextSessions ==
    \/ \E api_key \in ApiKeys, c \in SessionIds : AuthenticateApiKey(api_key, c)
    \/ \E c \in SessionIds : RemoveSession(c)
    \/ \E c \in SessionIds, permission \in Permissions : VerifyPermission(c, permission)
    \/ \E c \in SessionIds, action \in Actions : CheckRateLimit(c, action)
    \/ Return

SpecSessions == Init /\ [][NextSessions]_vars

\* ------------------------------------------------------ connection lifecycle

\* The state of the connection object with the given id: not yet accepted,
\* registered, or deleted from the registry (disconnect sets DISCONNECTED
\* just before the del)
StateOf(c) ==
    IF c \in DOMAIN connections THEN connections[c].state
    ELSE IF c \in Issued THEN DISCONNECTED
    ELSE CONNECTING

\* Position of a state along the connection's life
Rank(state) ==
    CASE state = CONNECTING -> 0
      [] state = CONNECTED -> 1
      [] state = AUTHENTICATED -> 2
      [] state = DISCONNECTING -> 3
      [] state = DISCONNECTED -> 4

\* disconnect(id) runs up to its await of the close and is suspended there
DisconnectBegin(c) ==
    /\ Idle
    /\ Get(closing, c, 0) < MaxClosers
    /\ SetRegistry(disconnect_begin(Machine, c, CloseNormal).m)
    /\ closing' = IF disconnect_begin(Machine, c, CloseNormal).suspended
                  THEN Put(closing, c, Get(closing, c, 0) + 1) ELSE closing
    /\ last' = Obs("disconnect_begin", c, None, PreConn(c), {},
                   disconnect_begin(Machine, c, CloseNormal).m, 0, FALSE)
    /\ UNCHANGED <<tasks, broadcast, hung, nextId, authVars, now, rateVars, dispatchVars>>

\* The close returned (or raised): a suspended disconnect(id) runs to its end
DisconnectResume(c) ==
    /\ Idle
    /\ Get(closing, c, 0) > 0
    /\ SetRegistry(disconnect_resume(Machine, c).m)
    /\ closing' = IF closing[c] = 1 THEN Del(closing, c) ELSE Put(closing, c, closing[c] - 1)
    /\ last' = Obs("disconnect_resume", c, None, PreConn(c), {},
                   disconnect_resume(Machine, c).m, 0, disconnect_resume(Machine, c).raised)
    /\ UNCHANGED <<tasks, broadcast, hung, nextId, authVars, now, rateVars, dispatchVars>>

\* Connections accepted, authenticated and disconnected by tasks that
\* interleave at the await of the close
NextLifecycle ==
    \/ ConnectBeat
    \/ \E c \in Issued, u \in Users : AuthenticateConnection(c, u)
    \/ \E c \in Issued, tag \in OneTag : Subscribe(c, tag)
    \/ \E c \in Issued : DisconnectBegin(c)
    \/ \E c \in Issued : DisconnectResume(c)
    \/ \E c \in Issued : Disconnect(c)
    \/ Return

SpecLifecycle == Init /\ [][NextLifecycle]_vars

\* ---------------------------------------------------------- connection ids

\* connect(websocket, connection_id) with an id the caller supplies
\* (handle_websocket hands its optional connection_id through): the id is
\* used as it is.  ret tells whether a connection held the id before.
ConnectAs(connection_id) ==
    /\ Idle
    /\ \E bad \in SUBSET {connection_id} :
         /\ SetRegistry(connect(Machine, connection_id, bad))
         /\ last' = Obs("connect", connection_id, "supplied", PreConn(connection_id),
                        {connection_id}, connect(Machine, connection_id, bad),
                        IF connection_id \in Issued THEN 1 ELSE 0, FALSE)
    /\ UNCHANGED <<asyncVars, nextId, authVars, now, rateVars, dispatchVars>>

\* Connections accepted with generated ids and with ids supplied by the caller
NextIds ==
    \/ Connect
    \/ \E connection_id \in Issued : ConnectAs(connection_id)
    \/ \E c \in Issued, tag \in OneTag : Subscribe(c, tag)
    \/ \E c \in Issued : Disconnect(c)
    \/ Return

SpecIds == Init /\ [][NextIds]_vars

\* -------------------------------------------------- background task loops

\* ConnectionManager._cleanup_connections: the connections whose probe
\* fails are disconnected
_cleanup_connections(M, orphaned) ==
    DisconnectEach(M, orphaned \cap DOMAIN M.connections, CloseSendError)

\* WebSocketRateLimiter._cleanup_local_buckets
_cleanup_local_buckets(B, t) ==
    [key \in {k \in DOMAIN B : ~(B[k].last_cleanup < t - cleanup_interval)} |-> B[key]]

\* A task's loop takes a turn only while the task is suspended in its sleep
Sleeping(task) == tasks[task] = "sleeping"

\* One turn of _heartbeat_loop: an exception of _send_heartbeat ends the loop
HeartbeatLoop ==
    /\ Idle
    /\ Sleeping("_heartbeat_loop")
    /\ \E badPing \in SUBSET DOMAIN connections :
       \E badSend \in SUBSET DOMAIN connections :
         LET r == _send_heartbeat(Machine, now, badPing, badSend)
         IN /\ SetRegistry(r.m)
            /\ tasks' = IF r.raised THEN [tasks EXCEPT !["_heartbeat_loop"] = "failed"]
                        ELSE tasks
            /\ last' = Obs("_heartbeat_loop", NoId, None, Absent, Overdue(now),
                           r.m, 0, r.raised)
    /\ UNCHANGED <<closing, broadcast, hung, nextId, authVars, now, rateVars, dispatchVars>>

\* One turn of the registry's _cleanup_loop
CleanupLoop ==
    /\ Idle
    /\ Sleeping("_cleanup_loop")
    /\ \E orphaned \in SUBSET DOMAIN connections :
         /\ SetRegistry(_cleanup_connections(Machine, orphaned))
         /\ last' = Obs("_cleanup_loop", NoId, None, Absent, orphaned,
                        _cleanup_connections(Machine, orphaned), 0, FALSE)
    /\ UNCHANGED <<asyncVars, nextId, authVars, now, rateVars, dispatchVars>>

\* One turn of _stats_loop: the counts are logged and, with a shared
\* cache, mirrored to it by setex, which answers or raises; an exception
\* ends the loop
StatsLoop ==
    /\ Idle
    /\ Sleeping("_stats_loop")
    /\ \E outcome \in {"no_cache", "ok", "error"} :
         /\ tasks' = IF outcome = "error" THEN [tasks EXCEPT !["_stats_loop"] = "failed"]
                     ELSE tasks
         /\ last' = Obs("_stats_loop", NoId, outcome, Absent, {}, NoEffects,
                        Cardinality(DOMAIN connections), outcome = "error")
    /\ UNCHANGED <<closing, broadcast, hung, regVars, authVars, now, rateVars, dispatchVars>>

\* One turn of the rate limiter's _cleanup_loop; an exception inside it is
\* caught within the loop, which goes on
RateCleanupLoop ==
    /\ Idle
    /\ Sleeping("rate_limiter._cleanup_loop")
    /\ local_buckets' = _cleanup_local_buckets(local_buckets, now)
    /\ last' = Obs("rate_limiter._cleanup_loop", NoId, None, Absent, {}, NoEffects,
                   Cardinality(DOMAIN local_buckets), FALSE)
    /\ UNCHANGED <<asyncVars, regVars, active_sessions, user_sessions, auth_attempts,
                   now, rateVars, dispatchVars>>

\* ConnectionManager.shutdown()
Shutdown ==
    /\ Idle
    /\ tasks' = shutdown(tasks)
    /\ last' = Obs("shutdown", NoId, None, Absent, {}, NoEffects, 0, FALSE)
    /\ UNCHANGED <<closing, broadcast, hung, regVars, authVars, now, rateVars, dispatchVars>>

\* The registry, its three loops, the limiter's loop, and shutdown
NextTasks ==
    \/ ConnectBeat
    \/ \E c \in Issued : HandlePong(c)
    \/ HeartbeatLoop
    \/ CleanupLoop
    \/ StatsLoop
    \/ RateCleanupLoop
    \/ Sleep
    \/ Shutdown
    \/ Return

SpecTasks == Init /\ [][NextTasks]_vars

\* ----------------------------------------------------------- broadcast loops

\* connection_ids = list(...) at the start of send_to_user,
\* broadcast_to_subscription and broadcast_to_all
BroadcastTargets(op, arg) ==
    CASE op = "broadcast_to_all" -> DOMAIN connections
      [] op = "broadcast_to_subscription" -> Get(subscription_connections, arg, {})
      [] op = "send_to_user" -> Get(user_connections, arg, {})

\* A producer calls one of the three broadcast primitives
BroadcastStart(op, arg) ==
    /\ broadcast.op = "none"
    /\ broadcast' = [op |-> op, connection_ids |-> BroadcastTargets(op, arg),
                     sent_count |-> 0, awaiting |-> NoId, delivered |-> {}]
    /\ UNCHANGED <<closing, tasks, hung, regVars, authVars, now, rateVars, dispatchVars, last>>

\* The loop reaches its next target: send_to_connection returns False for
\* a target that is gone or not alive, and otherwise awaits
\* websocket.send_text, with no timeout
BroadcastNext ==
    /\ broadcast.op # "none"
    /\ broadcast.awaiting = NoId
    /\ \E c \in broadcast.connection_ids :
         broadcast' =
            IF c \in DOMAIN connections /\ is_alive(connections[c])
            THEN [broadcast EXCEPT !.awaiting = c]
            ELSE [broadcast EXCEPT !.connection_ids = @ \ {c}]
    /\ UNCHANGED <<closing, tasks, hung, regVars, authVars, now, rateVars, dispatchVars, last>>

\* The awaited send returns or raises; the send to a peer that hangs does
\* neither for as long as its socket is open.  A send that raises
\* disconnects the target.
SendCompletes ==
    /\ broadcast.awaiting # NoId
    /\ broadcast.awaiting \in hung => broadcast.awaiting \notin DOMAIN connections
    /\ \E ok \in {b \in BOOLEAN : b => broadcast.awaiting \in DOMAIN connections} :
         /\ broadcast' = [broadcast EXCEPT
                            !.connection_ids = @ \ {broadcast.awaiting},
                            !.awaiting = NoId,
                            !.sent_count = IF ok THEN @ + 1 ELSE @,
                            !.delivered = IF ok THEN @ \cup {broadcast.awaiting} ELSE @]
         /\ SetRegistry(IF ok THEN Machine
                        ELSE disconnect(Machine, broadcast.awaiting, CloseSendError))
    /\ UNCHANGED <<closing, tasks, hung, nextId, authVars, now, rateVars, dispatchVars, last>>

\* The loop has gone through its targets: return sent_count
BroadcastReturn ==
    /\ broadcast.op # "none"
    /\ broadcast.awaiting = NoId
    /\ broadcast.connection_ids = {}
    /\ broadcast' = [broadcast EXCEPT !.op = "none"]
    /\ UNCHANGED <<closing, tasks, hung, regVars, authVars, now, rateVars, dispatchVars, last>>

\* A client stops reading: from now on a send to it never completes
PeerHangs(c) ==
    /\ c \in DOMAIN connections
    /\ c \notin hung
    /\ hung' = hung \cup {c}
    /\ UNCHANGED <<closing, tasks, broadcast, regVars, authVars, now, rateVars, dispatchVars, last>>

\* Broadcasts over a registry some of whose peers hang
NextBroadcast ==
    \/ ConnectBeat
    \/ \E c \in Issued : AuthenticateConnection(c, "u1")
    \/ \E c \in Issued, tag \in OneTag : Subscribe(c, tag)
    \/ BroadcastStart("broadcast_to_all", None)
    \/ \E tag \in OneTag : BroadcastStart("broadcast_to_subscription", tag)
    \/ BroadcastStart("send_to_user", "u1")
    \/ BroadcastNext
    \/ SendCompletes
    \/ BroadcastReturn
    \/ \E c \in Issued : PeerHangs(c)
    \/ Return

\* The event loop runs every coroutine that is ready to continue
SpecBroadcast ==
    /\ Init /\ [][NextBroadcast]_vars
    /\ WF_vars(BroadcastNext) /\ WF_vars(SendCompletes) /\ WF_vars(BroadcastReturn)

\* ------------------------------------------------------- handler construction

\* The event types the manager's _process_event handles itself
ControlTypes ==
    {"authenticate", "subscribe", "unsubscribe", PING, PONG}

\* WebSocketHandlers(websocket_manager, evolution_service, agno_service):
\* the table is set up and the counters start at zero
WebSocketHandlers(evolution_service, agno_service) ==
    /\ Idle
    /\ handlers' = _setup_handlers(evolution_service, agno_service)
    /\ events_processed' = 0
    /\ events_failed' = 0
    /\ last' = Obs("WebSocketHandlers", NoId, <<evolution_service, agno_service>>,
                   Absent, {}, NoEffects, 0, FALSE)
    /\ UNCHANGED <<asyncVars, regVars, authVars, now, rateVars, event_handlers, warnings>>

\* Handler managers built with every choice of collaborators, and used
NextHandlers ==
    \/ ConnectBeat
    \/ \E evolution_service, agno_service \in BOOLEAN :
         WebSocketHandlers(evolution_service, agno_service)
    \/ \E event_type \in {"user_activity", MESSAGE_RECEIVED} : AddHandler(event_type)
    \/ \E event_type \in {"user_activity", MESSAGE_RECEIVED} : RemoveHandler(event_type)
    \/ \E event_type \in {"user_activity", MESSAGE_RECEIVED, "agent_response", "system_status"} :
         ProcessEvent(event_type)
    \/ Return

SpecHandlers == Init /\ [][NextHandlers]_vars

\* ------------------------------------------------------------ failing close

\* disconnect(id) whose websocket.close returns or raises
DisconnectClosing(c) ==
    /\ Idle
    /\ \E close_raises \in BOOLEAN :
         LET r == disconnect_closing(Machine, c, CloseNormal, close_raises)
         IN /\ SetRegistry(r.m)
            /\ last' = Obs("disconnect", c, close_raises, PreConn(c), {}, r.m, 0, r.raised)
                       @@ [pre_user_connections |-> user_connections,
                           pre_subscription_connections |-> subscription_connections]
    /\ UNCHANGED <<asyncVars, nextId, authVars, now, rateVars, dispatchVars>>

\* Connections authenticated and subscribed, then disconnected over a
\* socket whose close may fail
NextClose ==
    \/ ConnectBeat
    \/ \E c \in Issued, u \in Users : AuthenticateConnection(c, u)
    \/ \E c \in Issued, tag \in Tags : Subscribe(c, tag)
    \/ \E c \in Issued : DisconnectClosing(c)
    \/ Return

SpecClose == Init /\ [][NextClose]_vars

\* ------------------------------------------------- in-band subscriptions

\* What a subscribe or unsubscribe frame carries as its subscription_type:
\* a tag, nothing, or a string that is no SubscriptionType
SubscriptionFields == Tags \cup {"", "invalid_subscription"}

\* Subscribe and unsubscribe frames from connections, authenticated or not
NextControl ==
    \/ ConnectBeat
    \/ \E c \in Issued : AuthenticateConnection(c, "u1")
    \/ \E c \in Issued, subscription_type \in SubscriptionFields :
         HandleSubscribe(c, subscription_type)
    \/ \E c \in Issued, subscription_type \in SubscriptionFields :
         HandleUnsubscribe(c, subscription_type)
    \/ Return

SpecControl == Init /\ [][NextControl]_vars

\* ------------------------------------------------ permission checks in time

\* Sessions opened at one instant and asked about at a later one
NextPermission ==
    \/ \E api_key \in ApiKeys, c \in SessionIds : AuthenticateApiKey(api_key, c)
    \/ \E c \in SessionIds, permission \in Permissions : VerifyPermission(c, permission)
    \/ Tick
    \/ Return

SpecPermission == Init /\ [][NextPermission]_vars

\* ------------------------------------------------------------ event routing

\* WebSocketManager.broadcast_event: to the subscribers of a tag, or to
\* every connection when no tag is given: [m, ret]
broadcast_event(M, etype, subscription_type, bad) ==
    IF subscription_type # None
    THEN broadcast_to_subscription(M, subscription_type, etype, bad)
    ELSE broadcast_to_all(M, etype, bad)

\* The tag under which the _handle_* method of an event type broadcasts;
\* system_maintenance is broadcast with no tag
HandlerTag(event_type) ==
    CASE event_type \in supported_events("InstanceEventHandler") -> "instance_status"
      [] event_type \in supported_events("MessageEventHandler") -> "messages"
      [] event_type \in supported_events("AgentEventHandler") -> "agent_events"
      [] event_type = "system_maintenance" -> None
      [] OTHER -> "system_events"

\* EventHandler.handle of the four handler classes, by event type:
\* [m, ret].  A status change without instance_id or status and a QR code
\* event without qr_code return False and send nothing; rate_limit_exceeded
\* goes to the user named in the data, if one is named.
handle(M, event, bad) ==
    LET sent == broadcast_event(M, event.type, HandlerTag(event.type), bad).m
    IN IF event.type \notin UNION {supported_events(h) : h \in BuiltinHandlers}
       THEN [m |-> M, ret |-> FALSE]
       ELSE IF /\ event.type = "instance_status_changed"
               /\ (Field(event.data, "instance_id") = "" \/ Field(event.data, "status") = "")
       THEN [m |-> M, ret |-> FALSE]
       ELSE IF event.type = "qr_code_generated" /\ Field(event.data, "qr_code") = ""
       THEN [m |-> M, ret |-> FALSE]
       ELSE IF event.type = "rate_limit_exceeded"
       THEN [m |-> IF Field(event.data, "user_id") # ""
                   THEN send_to_user(M, Field(event.data, "user_id"), event.type, bad).m
                   ELSE M,
             ret |-> TRUE]
       ELSE [m |-> sent, ret |-> TRUE]

\* The tags the handlers broadcast under
RoutedTags == {"instance_status", "messages", "agent_events", "system_events"}

\* Domain events as producers build them: every type the handlers
\* support with its fields filled, and the same without any field
DomainEvents ==
    [type : UNION {supported_events(h) : h \in BuiltinHandlers},
     data : {EmptyDict,
             [instance_id |-> "i1", status |-> "open", qr_code |-> "qr", user_id |-> "u1"]}]

\* handler.handle(event)
Handle(event) ==
    /\ Idle
    /\ \E bad \in SUBSET DOMAIN connections :
         LET r == handle(Machine, event, bad)
         IN /\ SetRegistry(r.m)
            /\ last' = Obs("handle", NoId, event.type, Absent, {}, r.m,
                           IF r.ret THEN 1 ELSE 0, FALSE)
                       @@ [event |-> event]
    /\ UNCHANGED <<asyncVars, nextId, authVars, now, rateVars, dispatchVars>>

\* Connections of two users with their subscriptions, and domain events
\* handed to the handlers
NextRouting ==
    \/ ConnectBeat
    \/ \E c \in Issued, u \in Users : AuthenticateConnection(c, u)
    \/ \E c \in Issued, tag \in RoutedTags : Subscribe(c, tag)
    \/ Idle /\ \E event \in DomainEvents : Handle(event)
    \/ Return

SpecRouting == Init /\ [][NextRouting]_vars

\* --------------------------------------------------------- event priorities

\* WebSocketEvent(type=..., data=...): a field the constructor call leaves
\* out takes the dataclass default, priority = EventPriority.NORMAL
WebSocketEvent(type, data) ==
    [type |-> type, data |-> data, priority |-> EventPriorityOf("normal")]

\* create_authentication_event(success, error=error)
create_authentication_event(success, error) ==
    [type |-> IF success THEN "authentication_success" ELSE AUTHENTICATION_FAILED,
     data |-> IF error = None THEN EmptyDict ELSE [error |-> error],
     priority |-> EventPriorityOf("high")]

\* create_system_event(event_type, ..., error=error): the priority follows
\* the truth value of error, and both None and '' are false
create_system_event(event_type, error) ==
    [type |-> event_type,
     data |-> IF error = None THEN EmptyDict ELSE [error |-> error],
     priority |-> IF error # None /\ error # ""
                  THEN EventPriorityOf("critical") ELSE EventPriorityOf("normal")]

\* emit_system_error(websocket_manager, component, error_message)
emit_system_error(M, error_message, bad) ==
    [event |-> create_system_event("system_error", error_message),
     r |-> broadcast_event(M, "system_error", "system_events", bad)]

\* Error texts handed to the event factories
ErrorTexts == {"", "redis unavailable"}

\* An authenticate frame, observed with the priority field of the envelope
\* of every event the handler sent (to_dict writes event.priority.value)
AuthenticateFrame(c, token) ==
    /\ Idle
    /\ c \in DOMAIN connections
    /\ \E bad \in SUBSET {c} :
         LET r == _handle_authenticate(Machine, Auth, c, token, bad, now)
         IN /\ SetRegistry(r.m)
            /\ SetAuth(r.a)
            /\ last' = Obs("authenticate_frame", c, token, PreConn(c), {c}, r.m, 0, FALSE)
                       @@ [priorities |->
                             [i \in DOMAIN r.m.sent |->
                                WebSocketEvent(r.m.sent[i].type, EmptyDict).priority.value]]
    /\ UNCHANGED <<asyncVars, nextId, now, rateVars, dispatchVars>>

\* create_authentication_event called for a failure
CreateAuthenticationEvent(error) ==
    /\ Idle
    /\ last' = Obs("create_authentication_event", NoId, error, Absent, {}, Machine, 0, FALSE)
               @@ [event |-> create_authentication_event(FALSE, error)]
    /\ UNCHANGED <<asyncVars, regVars, authVars, now, rateVars, dispatchVars>>

\* create_system_event called for a system_error, with or without an error
CreateSystemEvent(error) ==
    /\ Idle
    /\ last' = Obs("create_system_event", NoId, error, Absent, {}, Machine, 0, FALSE)
               @@ [event |-> create_system_event("system_error", error)]
    /\ UNCHANGED <<asyncVars, regVars, authVars, now, rateVars, dispatchVars>>

\* emit_system_error broadcasting the event it built
EmitSystemError(error_message) ==
    /\ Idle
    /\ \E bad \in SUBSET DOMAIN connections :
         LET e == emit_system_error(Machine, error_message, bad)
         IN /\ SetRegistry(e.r.m)
            /\ last' = Obs("emit_system_error", NoId, error_message, Absent, {}, e.r.m,
                           e.r.ret, FALSE)
                       @@ [event |-> e.event]
    /\ UNCHANGED <<asyncVars, nextId, authVars, now, rateVars, dispatchVars>>

\* Connections sending authenticate frames, and the factories building
\* failure events
NextPriority ==
    \/ ConnectBeat
    \/ \E c \in Issued : Subscribe(c, "system_events")
    \/ \E c \in Issued, token \in JwtTokens \cup {"invalid_token", ""} :
         AuthenticateFrame(c, token)
    \/ \E error \in ErrorTexts \cup {None} : CreateAuthenticationEvent(error)
    \/ \E error \in ErrorTexts \cup {None} : CreateSystemEvent(error)
    \/ \E error_message \in ErrorTexts : EmitSystemError(error_message)
    \/ Return

SpecPriority == Init /\ [][NextPriority]_vars

\* ------------------------------------------------------------- claims

BroadcastOps == {"send_to_user", "broadcast_to_subscription", "broadcast_to_all"}

\* The connections the last handler delivered its event to
Delivered == DeliveredOf(last, MESSAGE_RECEIVED)

\* C1: a connection id that is absent from the live-connection map appears
\* in no set of the subscription index and in no set of the per-user index.
C1_AbsentIdInNoIndex ==
    \A c \in Ids :
        c \notin DOMAIN connections =>
            /\ \A t \in DOMAIN subscription_connections : c \notin subscription_connections[t]
            /\ \A u \in DOMAIN user_connections : c \notin user_connections[u]

\* C2: a connection id is under tag T in the subscription index if and only
\* if the connection is live and T is in the connection's own subscription set.
C2_SubscriptionIndexSymmetric ==
    \A t \in SubscriptionType, c \in Ids :
        (t \in DOMAIN subscription_connections /\ c \in subscription_connections[t])
            <=> (c \in DOMAIN connections /\ t \in connections[c].subscriptions)

\* A subscribed connection has just been disconnected while another
\* connection is still subscribed to one of its tags.
C2_Witness ==
    /\ last.op = "disconnect"
    /\ \E t \in last.pre.subscriptions :
         /\ t \in DOMAIN subscription_connections
         /\ subscription_connections[t] # {}

\* C3: the authenticator holds a session for connection id c if and only if
\* c is a live connection in state Authenticated.
C3_SessionIffAuthenticated ==
    \A c \in Ids :
        (c \in DOMAIN active_sessions)
            <=> (c \in DOMAIN connections /\ connections[c].state = AUTHENTICATED)

\* C4: connection id c is listed under user u in the per-user session index
\* if and only if there is an active session for c whose user is u, and no
\* user maps to an empty set.
C4_UserSessionIndexExact ==
    /\ \A u \in Users, c \in Ids :
         (u \in DOMAIN user_sessions /\ c \in user_sessions[u])
             <=> (c \in DOMAIN active_sessions /\ active_sessions[c].user = u)
    /\ \A u \in DOMAIN user_sessions : user_sessions[u] # {}

\* A connection id that held a session of one user has just been
\* authenticated again as a different user.
C4_Witness ==
    /\ last.op \in {"authenticate", "authenticate_api_key"}
    /\ ~last.raised
    /\ last.pre.state = "session"
    /\ last.cid \in DOMAIN active_sessions
    /\ active_sessions[last.cid].user # last.pre.user

\* C5: in a broadcast, a target whose send fails is disconnected (closed with
\* the send-error code and gone from the live map), is not in the delivered
\* count, and every other live target still receives the event.
C5_SendFailureIsolated ==
    last.op \in BroadcastOps =>
        /\ \A c \in last.failed :
             /\ c \notin DOMAIN connections
             /\ \E i \in 1 .. Len(last.closed) : last.closed[i] = <<c, CloseSendError>>
        /\ last.failed \cap Delivered = {}
        /\ last.ret = Cardinality(Delivered)
        /\ \A c \in last.targets \ last.failed :
             c \in DOMAIN connections => c \in Delivered

\* A broadcast in which one send failed and two other targets received.
C5_Witness ==
    /\ last.op \in BroadcastOps
    /\ last.failed # {}
    /\ Cardinality(Delivered) >= 2

\* C6: sendToUser(u, e) delivers e to exactly the live authenticated
\* connections currently owned by user u and to no other connection.
C6_SendToUserExact ==
    last.op = "send_to_user" =>
        Delivered = {c \in DOMAIN connections :
                        is_authenticated(connections[c]) /\ connections[c].user = last.arg}

\* C7: broadcastToSubscription(T, e) delivers e to exactly the live
\* connections whose own subscription set holds T (a send that fails
\* disconnects its target) and returns the number of connections it
\* delivered to; an unsubscribed or never subscribed connection receives nothing.
C7_BroadcastToSubscriptionExact ==
    last.op = "broadcast_to_subscription" =>
        /\ Delivered = {c \in DOMAIN connections : last.arg \in connections[c].subscriptions}
        /\ last.ret = Cardinality(Delivered)

\* Two subscribers received the broadcast, the count is 2, and a third live
\* connection, not subscribed, received nothing.
C7_Witness ==
    /\ last.op = "broadcast_to_subscription"
    /\ last.ret = 2
    /\ Cardinality(Delivered) = 2
    /\ \E c \in DOMAIN connections :
         /\ last.arg \notin connections[c].subscriptions
         /\ c \notin Delivered

\* C8: disconnect(id) twice in sequence leaves the live map, the per-user
\* index and the subscription index as one call leaves them; the second call
\* returns at once, closing nothing and raising nothing.
C8_DisconnectIdempotent ==
    \A c \in Ids :
        LET once == disconnect(Machine, c, CloseNormal)
        IN disconnect(once, c, CloseNormal) = once

\* disconnect has just removed an authenticated, subscribed connection.
C8_Witness ==
    /\ last.op = "disconnect"
    /\ last.pre.state = AUTHENTICATED
    /\ last.pre.subscriptions # {}
    /\ last.cid \notin DOMAIN connections
    /\ Len(last.closed) = 1

\* C9: an in-band authenticate event with a missing or invalid credential
\* leaves the connection as it was (never Authenticated by this event, no
\* session), writes exactly one envelope, an authentication_failed one, to
\* that connection, and closes nothing; only when that one send itself
\* raises is the connection disconnected, as for any failed send.
C9_InvalidCredentialRejected ==
    (last.op = "handle_authenticate" /\ ~verify_token(last.arg).ok) =>
        /\ last.cid \notin DOMAIN active_sessions
        /\ last.cid \in DOMAIN connections => connections[last.cid] = last.pre
        /\ IF last.failed = {}
           THEN /\ last.sent = <<[to |-> last.cid, type |-> AUTHENTICATION_FAILED]>>
                /\ last.closed = <<>>
                /\ last.cid \in DOMAIN connections
           ELSE /\ last.sent = <<>>
                /\ last.closed = <<<<last.cid, CloseSendError>>>>

\* A connection in state Connected sent an invalid token, received the one
\* authentication_failed envelope and is still live and not Authenticated.
C9_Witness ==
    /\ last.op = "handle_authenticate"
    /\ last.arg = "invalid_token"
    /\ last.pre.state = CONNECTED
    /\ CountSent(last, last.cid, AUTHENTICATION_FAILED) = 1
    /\ last.cid \in DOMAIN connections
    /\ connections[last.cid].state = CONNECTED

\* C10: when a live connection in state Connected sends an authenticate
\* event with a credential the identity provider accepts, it becomes
\* Authenticated, a session bound to it exists, it is in the user's index,
\* and it receives an authentication_success envelope.
C10_ValidCredentialAuthenticates ==
    (/\ last.op = "handle_authenticate"
     /\ verify_token(last.arg).ok
     /\ last.pre.state = CONNECTED
     /\ last.failed = {}) =>
        /\ last.cid \in DOMAIN connections
        /\ connections[last.cid].state = AUTHENTICATED
        /\ connections[last.cid].user = verify_token(last.arg).user
        /\ last.cid \in DOMAIN active_sessions
        /\ last.cid \in Get(user_connections, verify_token(last.arg).user, {})
        /\ CountSent(last, last.cid, AUTHENTICATION_SUCCESS) = 1

\* C11: after a heartbeat, every connection that had shown no pong for
\* longer than the threshold (never ponged ones included) is gone from the
\* registry and was closed with the timeout code 1001.
C11_StaleConnectionTimedOut ==
    last.op = "_send_heartbeat" =>
        \A c \in last.targets :
            /\ c \notin DOMAIN connections
            /\ \E i \in 1 .. Len(last.closed) : last.closed[i] = <<c, CloseTimeout>>

\* No call so far met a backend error
NoBackendError == \A i \in 1 .. Len(rate_calls) : rate_calls[i].outcome = "ok"

\* The earlier calls of call i's key that backend b admitted within the
\* last RateWindow time units before call i
AdmittedInWindow(i, b) ==
    {j \in 1 .. (i - 1) :
        /\ rate_calls[j].key = rate_calls[i].key
        /\ rate_calls[j][b]
        /\ rate_calls[j].t > rate_calls[i].t - RateWindow}

\* C12: for a fixed key, limit L and window W, a call is admitted if and
\* only if fewer than L admissions for that key fall within the last W time
\* units, on either backend (calls at non-decreasing times, no backend error).
C12_AdmittedIffUnderLimit ==
    NoBackendError =>
        \A i \in 1 .. Len(rate_calls) : \A b \in {"local", "redis"} :
            rate_calls[i][b] <=> Cardinality(AdmittedInWindow(i, b)) < RateLimit

\* C13: without backend errors the shared-cache backend and the local
\* backend give the same admission decision for every call of a sequence.
C13_BackendsAgree ==
    NoBackendError =>
        \A i \in 1 .. Len(rate_calls) : rate_calls[i].local = rate_calls[i].redis

\* C14: when the shared cache raises during a rate-limit check, is_allowed
\* returns true for that call and raises nothing.
C14_FailOpen ==
    (last.op = "is_allowed" /\ last.arg # "ok") => (last.ret = 1 /\ ~last.raised)

\* The shared cache raised on a call that it would have refused: the key
\* already held RateLimit entries within the window.
C14_Witness ==
    /\ last.op = "is_allowed"
    /\ last.arg # "ok"
    /\ LET c == rate_calls[Len(rate_calls)]
       IN Cardinality({j \in 1 .. (Len(rate_calls) - 1) :
                          /\ rate_calls[j].key = c.key
                          /\ rate_calls[j].outcome = "ok"
                          /\ rate_calls[j].t > c.t - RateWindow}) >= RateLimit

\* C15: revoke_user_sessions(u) on a user holding N sessions returns N, ends
\* those N sessions and disconnects exactly those N connections: they are no
\* longer in the registry.
C15_RevokeDisconnectsSessions ==
    last.op = "revoke_user_sessions" =>
        /\ last.ret = Cardinality(last.targets)
        /\ \A c \in last.targets :
             /\ c \notin DOMAIN active_sessions
             /\ c \notin DOMAIN connections

\* C16: connect registers the connection in state Connected and the first
\* envelope written to it is connection_established carrying the id
\* assigned; connecting and then disconnecting that connection leaves the
\* number of live connections as it was before the connect.
C16_ConnectLifecycle ==
    /\ (last.op = "connect" /\ last.failed = {}) =>
          /\ last.cid \in DOMAIN connections
          /\ connections[last.cid].state = CONNECTED
          /\ last.sent # <<>>
          /\ last.sent[1].to = last.cid
          /\ last.sent[1].type = CONNECTION_ESTABLISHED
          /\ last.sent[1].data.connection_id = last.cid
    /\ \A bad \in SUBSET {nextId} :
          LET opened == connect(Machine, nextId, bad)
              closed == disconnect(opened, nextId, CloseNormal)
          IN /\ bad = {} => Cardinality(DOMAIN opened.connections)
                                = Cardinality(DOMAIN connections) + 1
             /\ Cardinality(DOMAIN closed.connections) = Cardinality(DOMAIN connections)
             /\ nextId \notin DOMAIN closed.connections

\* A connection has just been accepted next to two live ones and has
\* received its welcome envelope.
C16_Witness ==
    /\ last.op = "connect"
    /\ last.failed = {}
    /\ Len(last.sent) = 1
    /\ Cardinality(DOMAIN connections) = 3

\* C17: a ping event from a live connection is answered with exactly one
\* pong, and the pong carries the timestamp the ping carried.
C17_PongEchoesPing ==
    (last.op = "handle_ping" /\ last.failed = {} /\ last.ret # NoTime) =>
        /\ Len(last.sent) = 1
        /\ last.sent[1].to = last.cid
        /\ last.sent[1].type = PONG
        /\ last.sent[1].data.timestamp = last.ret

\* C18: encoding an event with to_dict and decoding the envelope with
\* from_dict gives an event with the same type, data, priority, timestamp,
\* connection_id, user_id and metadata.
C18_RoundTrip ==
    last.op = "round_trip" => (~last.raised /\ last.decoded = last.event)

\* A critical event with a nested payload, a non-zero microsecond and a
\* negative UTC offset has been through the round trip.
C18_Witness ==
    /\ last.op = "round_trip"
    /\ last.event.priority.name = "CRITICAL"
    /\ last.event.timestamp.microsecond = 120000
    /\ last.event.timestamp.utcoffset < 0
    /\ last.event.data # EmptyDict

\* C19: an exception raised inside an event handler is caught where the
\* event is dispatched, is counted as one failure and does not reach the
\* caller; the handlers registered after it for the same type still run
\* and the connection's read loop goes on.  This is required of the
\* handler table's process_event and of the read loop's _process_event.
C19_HandlerExceptionContained ==
    /\ (last.op = "process_event" /\ last.arg = "raise") =>
          /\ ~last.raised
          /\ last.counted = 1
    /\ (last.op = "handle_message" /\ last.raising # {}) =>
          /\ ~last.raised
          /\ last.ran = [i \in 1 .. Len(last.handler_list) |-> i]
          /\ last.counted = 1

Appended(success) ==
    /\ Len(auth_attempts) = Len(last.pre_attempts) + 1
    /\ SubSeq(auth_attempts, 1, Len(last.pre_attempts)) = last.pre_attempts
    /\ auth_attempts[Len(auth_attempts)].success = success
    /\ auth_attempts[Len(auth_attempts)].connection_id = last.cid

\* C21: a failing authenticate (bad credential, provider error, rate limit
\* exceeded) appends exactly one audit entry with success = false, raises,
\* creates no session and closes no connection; a succeeding one appends
\* exactly one entry with success = true and returns the user.
C21_AuthenticateAudited ==
    last.op = "authenticate" =>
       /\ last.closed = <<>>
       /\ last.raised =>
             /\ Appended(FALSE)
             /\ active_sessions = last.pre_sessions
             /\ user_sessions = last.pre_user_sessions
       /\ ~last.raised =>
             /\ Appended(TRUE)
             /\ verify_token(last.arg).ok
             /\ last.user = verify_token(last.arg).user
             /\ last.cid \in DOMAIN active_sessions
             /\ active_sessions[last.cid].user = last.user

\* The eleventh authentication of one user within the window is refused by
\* the rate limit
C21_Witness ==
    /\ last.op = "authenticate"
    /\ last.arg = "jwt_u1"
    /\ last.raised
    /\ Len(auth_attempts) = Len(last.pre_attempts) + 1
    /\ ~auth_attempts[Len(auth_attempts)].success

\* C22: authenticate_api_key keeps the contract of authenticate: it checks
\* the authentication rate limit of the resolved user, creates the session
\* and appends one audit entry on success, and appends one failure entry
\* and raises on any failure.
C22_ApiKeySameContract ==
    last.op = "authenticate_api_key" =>
       /\ last.raised =>
             /\ Appended(FALSE)
             /\ active_sessions = last.pre_sessions
       /\ ~last.raised =>
             /\ Appended(TRUE)
             /\ last.cid \in DOMAIN active_sessions
             /\ active_sessions[last.cid].user = last.user
             \* the admission is recorded under the user's "auth" key
             /\ RateKey(last.user, "auth") \in DOMAIN local_buckets
             /\ local_buckets # last.pre_buckets

\* C23: verify_permission(c, p) returns true exactly when c has an active
\* session whose permissions contain p or "admin"; it returns false for a
\* connection without a session.
C23_VerifyPermission ==
    last.op = "verify_permission" =>
       (last.ret = 1) =
          /\ last.cid \in DOMAIN last.pre_sessions
          /\ \/ last.arg \in last.pre_sessions[last.cid].permissions
             \/ "admin" \in last.pre_sessions[last.cid].permissions

\* An administrator's connection is granted a permission no role lists
C23_Witness ==
    /\ last.op = "verify_permission"
    /\ last.arg = "billing"
    /\ last.ret = 1
    /\ last.cid \in DOMAIN last.pre_sessions
    /\ "billing" \notin last.pre_sessions[last.cid].permissions

\* The admissions a bucket holds inside the window ending at t
InWindow(B, key, window, t) ==
    IF key \in DOMAIN B
    THEN Len(SelectSeq(B[key].requests, LAMBDA req_time : req_time > t - window))
    ELSE 0

\* C30: check_rate_limit(c, action, L, W) meters the key of the session's
\* user and the action: the answer depends on that key's admissions only
\* (so the connections of one user share a quota per action), no other
\* key's bucket changes (so users do not affect each other), and a
\* connection without a session is refused and nothing is recorded.
C30_RateLimitKeyedByUser ==
    last.op = "check_rate_limit" =>
       IF last.cid \notin DOMAIN last.pre_sessions
       THEN last.ret = 0 /\ local_buckets = last.pre_buckets
       ELSE LET key == RateKey(last.pre_sessions[last.cid].user, last.action)
                before == InWindow(last.pre_buckets, key, RateWindow, now)
            IN /\ (last.ret = 1) = (before < RateLimit)
               /\ InWindow(local_buckets, key, RateWindow, now)
                    = before + last.ret
               /\ \A other \in (DOMAIN local_buckets \cup DOMAIN last.pre_buckets) \ {key} :
                     /\ other \in DOMAIN local_buckets
                     /\ other \in DOMAIN last.pre_buckets
                     /\ local_buckets[other] = last.pre_buckets[other]

\* A connection is refused because another connection of the same user
\* used up the quota of that action, while a different user, or the same
\* user's other action, is still admitted
C30_Witness ==
    /\ last.op = "check_rate_limit"
    /\ last.ret = 0
    /\ last.cid \in DOMAIN last.pre_sessions
    /\ \A i \in 1 .. Len(rate_calls) - 1 :
          /\ rate_calls[i].connection_id # last.cid
          /\ rate_calls[i].ret
          /\ rate_calls[i].action = last.action
    /\ \A c \in DOMAIN active_sessions :
          active_sessions[c].user # active_sessions[last.cid].user
            => check_rate_limit(Auth, c, last.action, RateLimit, RateWindow, now).ret
    /\ \E c \in DOMAIN active_sessions :
          active_sessions[c].user # active_sessions[last.cid].user

\* C29: cleanup_expired_sessions(max_idle_time) removes exactly the
\* sessions idle for longer than max_idle_time, takes them out of the
\* per-user index as well, and leaves every other session as it was.
C29_CleanupRemovesExpired ==
    last.op = "cleanup_expired_sessions" =>
       LET expired == {c \in DOMAIN last.pre_sessions :
                          now - last.pre_sessions[c].last_activity > last.ret}
       IN /\ DOMAIN active_sessions = DOMAIN last.pre_sessions \ expired
          /\ \A c \in DOMAIN active_sessions : active_sessions[c] = last.pre_sessions[c]
          /\ \A u \in Users :
                Get(user_sessions, u, {}) = Get(last.pre_user_sessions, u, {}) \ expired
          /\ \A u \in DOMAIN user_sessions : user_sessions[u] # {}

\* One session of a user expired and was removed, another session of the
\* same user was kept
C29_Witness ==
    /\ last.op = "cleanup_expired_sessions"
    /\ \E u \in Users, c \in DOMAIN last.pre_sessions, d \in DOMAIN active_sessions :
          /\ last.pre_sessions[c].user = u
          /\ c \notin DOMAIN active_sessions
          /\ active_sessions[d].user = u
          /\ now - active_sessions[d].last_activity = last.ret

\* C24: the state of a connection only moves forward along Connecting,
\* Connected, Authenticated, Disconnecting, Disconnected, whatever the
\* interleaving: a connection that is Disconnecting does not become
\* Connected or Authenticated again, and Disconnected is final.
C24_StateMovesForward ==
    [][\A c \in Ids : Rank(StateOf(c)) <= Rank(StateOf(c)')]_vars

\* C25: every connect registers the connection under a fresh id: no live
\* connection holds it (no registry entry is replaced) and no earlier
\* connection, since disconnected, ever held it.
C25_ConnectAssignsFreshId ==
    last.op = "connect" =>
       /\ last.pre.state = "absent"
       /\ last.ret = 0

\* C26: after shutdown every background task the subsystem started (the
\* heartbeat, cleanup and stats loops and the local rate limiter's purge
\* loop) has caught its cancellation or ended before; none is still
\* running.
C26_ShutdownStopsEveryTask ==
    last.op = "shutdown" =>
       \A task \in DOMAIN tasks : tasks[task] \in {"cancelled", "failed"}

\* C27: one peer whose send never completes does not stall a broadcast for
\* ever: send_to_user, broadcast_to_subscription and broadcast_to_all
\* return in the end, and every responsive target still waiting is
\* reached in the end.
C27_BroadcastNotStalled ==
    /\ (broadcast.op # "none") ~> (broadcast.op = "none")
    /\ \A c \in Ids :
          (broadcast.op # "none" /\ c \in broadcast.connection_ids /\ c \notin hung)
            ~> (c \notin broadcast.connection_ids \/ c \in hung)

\* C28: once the handler manager has been constructed, with or without
\* the evolution and agno collaborators, its table has a handler for
\* every EventType that is not a control type.
C28_TableCoversEveryType ==
    last.op = "WebSocketHandlers" =>
        \A e \in EventTypeMembers :
            e.value \notin ControlTypes => e.value \in DOMAIN handlers

\* C31: when disconnect(id) runs while an earlier disconnect(id) is
\* suspended at the await of the close, both calls return without
\* raising, and once both have ended the connection is in neither the
\* live map nor any index, as after a single disconnect.
C31_ConcurrentDisconnect ==
    last.op = "disconnect_resume" =>
       /\ ~last.raised
       /\ last.cid \notin DOMAIN closing =>
             /\ last.cid \notin DOMAIN connections
             /\ \A u \in DOMAIN user_connections : last.cid \notin user_connections[u]
             /\ \A tag \in DOMAIN subscription_connections :
                   last.cid \notin subscription_connections[tag]

\* C32: a heartbeat cycle pings every connection that is live from its
\* start to its end and records the cycle's time as its last_ping, also
\* when the ping or the send to another connection fails in that cycle.
C32_HeartbeatReachesEveryLive ==
    last.op = "_send_heartbeat" =>
       \A c \in last.pre_connections \cap DOMAIN connections :
          /\ connections[c].last_ping = now
          /\ CountSent(last, c, PING) = 1

\* C33: an error raised during one cycle of the heartbeat, cleanup or
\* stats loop does not end the loop: the task is back in its sleep, from
\* which later cycles run.
C33_LoopSurvivesError ==
    (last.op \in ManagerTasks /\ last.raised) => Sleeping(last.op)

\* C34: disconnect(id) on a live connection takes it out of the live
\* map, out of its user's index set and out of every subscription set,
\* also when the close of the socket raises, and raises nothing itself.
C34_DisconnectDespiteCloseError ==
    (last.op = "disconnect" /\ last.pre.state # "absent") =>
       /\ ~last.raised
       /\ last.cid \notin DOMAIN connections
       /\ last.pre.user # None => last.cid \notin Get(user_connections, last.pre.user, {})
       /\ \A tag \in DOMAIN subscription_connections \cup last.pre.subscriptions :
             last.cid \notin Get(subscription_connections, tag, {})

\* The close of an authenticated connection with two subscriptions
\* raised, and the connection had been in its user's set and in both
\* subscription sets
C34_Witness ==
    /\ last.op = "disconnect"
    /\ last.arg = TRUE
    /\ last.pre.state = AUTHENTICATED
    /\ last.pre.subscriptions = Tags
    /\ last.cid \in last.pre_user_connections[last.pre.user]
    /\ \A tag \in Tags : last.cid \in last.pre_subscription_connections[tag]
    /\ last.cid \notin DOMAIN connections

\* C35: authenticate with a valid credential whose user has used up the
\* authentication limit within the window is aborted: it raises, appends
\* one failure entry to the audit log, and neither creates nor replaces a
\* session.
C35_AuthenticateRateLimited ==
    (/\ last.op = "authenticate"
     /\ verify_token(last.arg).ok
     /\ InWindow(last.pre_buckets, RateKey(verify_token(last.arg).user, "auth"),
                 AuthWindow, now) >= AuthLimit)
    => /\ last.raised
       /\ Appended(FALSE)
       /\ active_sessions = last.pre_sessions
       /\ user_sessions = last.pre_user_sessions

\* The refused call found a session of the connection that an earlier
\* instant had created, and the limit used up by successful calls
C35_Witness ==
    /\ last.op = "authenticate"
    /\ verify_token(last.arg).ok
    /\ InWindow(last.pre_buckets, RateKey(verify_token(last.arg).user, "auth"),
                AuthWindow, now) = AuthLimit
    /\ last.raised
    /\ last.cid \in DOMAIN last.pre_sessions
    /\ last.pre_sessions[last.cid].last_activity < now
    /\ Cardinality({i \in 1 .. Len(last.pre_attempts) : last.pre_attempts[i].success})
         = AuthLimit

\* C36: a subscribe event with a valid tag from a live connection gets
\* exactly one subscription_confirmed envelope, written to that connection
\* (unless that write itself fails); an unsubscribe event writes nothing;
\* a subscribe or unsubscribe event whose tag is missing or no
\* SubscriptionType writes nothing and leaves the connection's
\* subscription set and the subscription index as they were.
C36_SubscribeConfirmedOnly ==
    /\ last.op = "handle_subscribe" =>
          IF last.arg \in SubscriptionType
          THEN last.failed = {} =>
                  /\ last.sent = <<[to |-> last.cid, type |-> SUBSCRIPTION_CONFIRMED]>>
                  /\ last.arg \in connections[last.cid].subscriptions
                  /\ last.cid \in subscription_connections[last.arg]
          ELSE /\ last.sent = <<>>
               /\ connections[last.cid] = last.pre
               /\ subscription_connections = last.pre_subscription_connections
    /\ last.op = "handle_unsubscribe" =>
          /\ last.sent = <<>>
          /\ last.arg \notin SubscriptionType =>
                /\ connections[last.cid] = last.pre
                /\ subscription_connections = last.pre_subscription_connections

\* An unauthenticated connection that holds one tag subscribed to the
\* other and was confirmed
C36_Witness ==
    /\ last.op = "handle_subscribe"
    /\ last.arg = "instance_status"
    /\ last.pre.state = CONNECTED
    /\ last.pre.subscriptions = {"messages"}
    /\ last.sent = <<[to |-> last.cid, type |-> SUBSCRIPTION_CONFIRMED]>>
    /\ connections[last.cid].subscriptions = Tags

\* C37: a permission check that is refused, for want of a session or of
\* the permission, changes no state: the sessions with their activity
\* timestamps are as the call found them.
C37_RefusalMutatesNothing ==
    (last.op = "verify_permission" /\ last.ret = 0) =>
        active_sessions = last.pre_sessions

\* C38: a domain handler delivers its event to exactly one target and to
\* no connection outside it: instance events to the instance_status
\* subscribers, message events to the messages subscribers, agent events
\* to the agent_events subscribers, system_status, system_error,
\* performance_metrics and health_check to the system_events subscribers,
\* system_maintenance to every live connection, and rate_limit_exceeded
\* to the connections of the user named in the event data only.
C38_HandlerTargets ==
    last.op = "handle" =>
       LET received == DeliveredOf(last, last.arg)
       IN /\ \A i \in 1 .. Len(last.sent) : last.sent[i].type = last.arg
          /\ IF last.ret = 0 THEN received = {}
             ELSE IF last.arg = "rate_limit_exceeded"
             THEN received = {c \in DOMAIN connections :
                                 /\ is_authenticated(connections[c])
                                 /\ connections[c].user = Field(last.event.data, "user_id")}
             ELSE IF last.arg = "system_maintenance"
             THEN received = DOMAIN connections
             ELSE received = {c \in DOMAIN connections :
                                 HandlerTag(last.arg) \in connections[c].subscriptions}

\* C39: every process_event call changes exactly one counter by one: the
\* success count when it returns true, the failure count when it returns
\* false, also when no handler is registered for the type and when the
\* handler raises.
C39_EveryEventCounted ==
    last.op = "process_event" =>
       IF last.ret = 1
       THEN /\ events_processed = last.pre_events_processed + 1
            /\ events_failed = last.pre_events_failed
       ELSE /\ events_processed = last.pre_events_processed
            /\ events_failed = last.pre_events_failed + 1

\* C40: every authentication_failed envelope the subsystem sends to a
\* connection carries priority high or critical, and every system_error
\* event built with an error carries priority high or critical; neither
\* goes out with the default priority normal.
C40_FailuresArePrioritised ==
    /\ last.op = "authenticate_frame" =>
         \A i \in DOMAIN last.sent :
            last.sent[i].type = AUTHENTICATION_FAILED =>
               last.priorities[i] \in {"high", "critical"}
    /\ last.op = "create_authentication_event" =>
         last.event.priority.value \in {"high", "critical"}
    /\ (last.op \in {"create_system_event", "emit_system_error"}
        /\ last.arg \notin {None, ""}) =>
         last.event.priority.value \in {"high", "critical"}

====
